---- MODULE Spec2Model ----
(***************************************************************************)
(* Model of the ciao controller datastore                                  *)
(* (ciao-controller/internal/datastore/datastore.go): the in-memory cache  *)
(* of tenants, instances, nodes, block devices and storage attachments,    *)
(* the per-tenant IP allocator, the CNCI notification channels and the     *)
(* locking discipline between the maps.                                    *)
(*                                                                         *)
(* The Datastore struct is the record ds, one field per map of the struct. *)
(* Go maps are TLA+ functions whose DOMAIN is the key set.  The host table *)
(* of a subnet, a map[int]bool, is the pair of its key sets: on, the keys  *)
(* mapped to true, and off, the keys mapped to false; a key in neither is  *)
(* missing and reads as false.  A run-time panic of the Go code (nil map   *)
(* write, nil pointer dereference) sets panicked and ends the process: no  *)
(* action is enabled afterwards.                                           *)
(*                                                                         *)
(* A call runs in a goroutine of Threads, one step per critical section,   *)
(* per synchronous call of a store table that is kept, per event logged    *)
(* and per channel send (actions Call... and Step...); the step that       *)
(* returns records the call and its result in ret.  A store call or        *)
(* updateTenantUsage started with go is queued in jobs and runs as a later *)
(* step, in any order.                                                     *)
(*                                                                         *)
(* Specifications: Spec, SpecAlloc, SpecExhaust, SpecFill and SpecProbe    *)
(* (the IP allocator), SpecInst (the instance cache), SpecVol (block       *)
(* devices and storage attachments), SpecUsage (the tenant usage history,  *)
(* with a clock), SpecFail (the failure handlers and the event log),       *)
(* SpecTenant (the tenant cache and the limits), SpecLaunch (instances     *)
(* launched with an address), SpecNotFound (the lookups), SpecNodes (the   *)
(* instance indices of two nodes), SpecRestart (Init on a store that holds *)
(* tenants), SpecStats (last stats and usage), SpecStore, SpecTeardown and *)
(* SpecAttach (the cache next to the tables of the persistent store),      *)
(* SpecCNCI (the CNCI channels), SpecDevices (the two device maps),        *)
(* SpecRace (AddInstance against deleteInstance), SpecLocks (the map       *)
(* locks, one lock call at a time) and SpecStoreCalls (store calls and     *)
(* locks).  In Spec, SpecAlloc, SpecTenant, SpecStore, SpecCNCI,           *)
(* SpecDevices and SpecRace the calls are concurrent; in the others the    *)
(* caller makes one call after the other (Serial) while the goroutines     *)
(* started with go run in between.                                         *)
(***************************************************************************)
EXTENDS Integers, Sequences, FiniteSets, TLC

VARIABLES
    ds,        \* the Datastore struct
    panicked,  \* TRUE once an operation hit a Go run-time panic
    held,      \* history: <<tenant, ip>> handed out by AllocateTenantIP and not yet released
    ret,       \* history: the last completed call, its arguments and its result
    prev,      \* history: the call completed before ret
    thr,       \* the goroutines that run calls step by step: their frames
    chans,     \* the CNCI channels: what was sent on each
    locks,     \* the reader/writer locks of the maps (lock specification)
    jobs,      \* the goroutines started with go and not yet run
    uuid,      \* the number of uuid.Generate calls so far
    now,       \* the clock, in minutes
    events,    \* the event log of the persistent store, oldest entry first
    db         \* the instance, address and attachment tables of the persistent store

vars == <<ds, panicked, held, ret, prev, thr, chans, locks, jobs, uuid, now, events, db>>

----------------------------------------------------------------------------
(* Bounds of the model *)

MaxOps == 3          \* calls per behaviour
MaxNow == 6          \* the clock stops at MaxNow minutes
MaxFailOps == 2      \* calls per behaviour of SpecFail

\* the number of later allocations looked at for an address given back
MaxRealloc == 3

(* Program constants *)

SubnetFirstByte == 16    \* subnetBytes = []byte{16, 0}
SubnetLastByte == 31     \* if subnetBytes[0] == 31: out of subnets
ByteMax == 255           \* subnetBytes[1] == 255, rest == 255
HostsPerSubnet == 253    \* len(network[k]) < 253
FirstHost == 2           \* rest := 2
IPPrefix == 172          \* net.IPv4(172, ...)
InstancesRtype == 1      \* tenant.Resources[i].Rtype == 1

TenantIDs == {"t1", "t2"}

----------------------------------------------------------------------------
(* Go maps *)

EmptyMap == [x \in {} |-> TRUE]

MapPut(m, k, v) == [x \in DOMAIN m \cup {k} |-> IF x = k THEN v ELSE m[x]]

MapDel(m, k) == [x \in DOMAIN m \ {k} |-> m[x]]

\* make(map[int]bool)
EmptyHosts == [on |-> {}, off |-> {}]

\* hosts[rest] of a map[int]bool: false for a missing key
BoolAt(hosts, rest) == rest \in hosts.on

\* len(hosts)
LenHosts(hosts) == Cardinality(hosts.on) + Cardinality(hosts.off)

\* sort.Ints: an ascending slice is left as it is
SortInts(s) ==
    LET n == Len(s)
        rank(i) == Cardinality({j \in 1..n : s[j] < s[i] \/ (s[j] = s[i] /\ j < i)}) + 1
    IN  IF \A i \in 1..(n - 1) : s[i] <= s[i + 1] THEN s
        ELSE [p \in 1..n |-> s[CHOOSE i \in 1..n : rank(i) = p]]

\* binary.BigEndian.Uint16
BigEndianUint16(b) == b[1] * 256 + b[2]

\* binary.BigEndian.PutUint16
PutUint16(v) == <<(v \div 256) % 256, v % 256>>

----------------------------------------------------------------------------
(* IP addresses.  An address string is modelled as the sequence of the     *)
(* bytes it writes: four bytes are a dotted quad, sixteen an IPv6 address, *)
(* anything else does not parse.  A net.IP is the sequence of its bytes,   *)
(* four or sixteen; an IPv4 address in 16-byte form has the prefix         *)
(* v4InV6Prefix.                                                           *)

NilIP == <<>>

\* v4InV6Prefix: ten zero bytes, 0xff, 0xff
V4InV6Prefix == <<0, 0, 0, 0, 0, 0, 0, 0, 0, 0, ByteMax, ByteMax>>

\* net.ParseIP: a dotted quad parses to the 16-byte form net.IPv4 builds
ParseIP(s) ==
    IF \E i \in 1..Len(s) : s[i] \notin 0..ByteMax THEN NilIP
    ELSE IF Len(s) = 4 THEN V4InV6Prefix \o s
    ELSE IF Len(s) = 16 THEN s
    ELSE NilIP

\* net.IP.To4: a 4-byte address as it is, a 16-byte address with the
\* prefix v4InV6Prefix cut to its last four bytes, nil for any other
To4(ip) ==
    IF Len(ip) = 4 THEN ip
    ELSE IF Len(ip) = 16 /\ SubSeq(ip, 1, 12) = V4InV6Prefix THEN SubSeq(ip, 13, 16)
    ELSE NilIP

\* net.IPv4: the address in 16-byte form
IPv4(a, b, c, d) == V4InV6Prefix \o <<a, b, c, d>>

\* net.IP.String: the dotted quad of an address To4 converts, the IPv6
\* text of any other
IPString(ip) == IF To4(ip) # NilIP THEN To4(ip) ELSE ip

----------------------------------------------------------------------------
(* Tenants *)

\* a nil *tenant stored in the tenants map
NilTenant == [nil |-> TRUE]

IsNilTenant(t) == "nil" \in DOMAIN t

\* ds.tenants[id] != nil
TenantCached(d, id) == id \in DOMAIN d.tenants /\ ~IsNilTenant(d.tenants[id])

\* the tenants of the cache that are not nil
CachedTenants(d) == {id \in DOMAIN d.tenants : ~IsNilTenant(d.tenants[id])}

\* what getTenantNoCache of the persistent store returns for a tenant just
\* added: no CNCI, zero usage, an empty (non-nil) network map.  The cache
\* holds pointers: ptr tells the tenant objects of one ID apart, 0 for the
\* one made by Init or by a call that runs as one step, th for the one
\* getTenantNoCache returned to goroutine th.
NewTenant(id, mac) ==
    [ptr |-> 0, ID |-> id, CNCIID |-> "", CNCIIP |-> "", CNCIMAC |-> mac,
     Resources |-> << [Rtype |-> 1, Rname |-> "instances", Limit |-> 0, Usage |-> 0],
                      [Rtype |-> 2, Rname |-> "vcpus", Limit |-> 0, Usage |-> 0],
                      [Rtype |-> 3, Rname |-> "mem_mb", Limit |-> 0, Usage |-> 0] >>,
     network |-> EmptyMap, subnets |-> <<>>,
     instances |-> {}, devices |-> EmptyMap]

\* the keys of a map of integers in ascending order
RECURSIVE SortedKeys(_)
SortedKeys(keys) ==
    IF keys = {} THEN <<>>
    ELSE LET k == CHOOSE x \in keys : \A y \in keys : x <= y
         IN  <<k>> \o SortedKeys(keys \ {k})

\* what getTenantNoCache of the persistent store s returns for a tenant it
\* holds: the tenant with the addresses the store has claimed for it
GetTenantNoCache(s, id, mac) ==
    LET claimed == IF id \in DOMAIN s.claimed THEN s.claimed[id] ELSE EmptyMap
    IN  [NewTenant(id, mac) EXCEPT
            !.network = [k \in DOMAIN claimed |-> [on |-> claimed[k], off |-> {}]],
            !.subnets = SortedKeys(DOMAIN claimed)]

----------------------------------------------------------------------------
(* The IP allocator *)

\* len(network[k]); a missing subnet reads as a nil map of length 0
HostsLen(network, k) ==
    IF k \in DOMAIN network THEN LenHosts(network[k]) ELSE 0

\* for _, k := range subnets { if len(network[k]) < 253 { subnetInt = uint16(k) } }
\* the loop has no break: the last subnet with room wins; 0 when none has
PickSubnet(network, subnets) ==
    LET room == {j \in 1..Len(subnets) : HostsLen(network, subnets[j]) < HostsPerSubnet}
    IN  IF room = {} THEN 0
        ELSE subnets[CHOOSE j \in room : \A q \in room : q <= j] % 65536

\* the p-th value of subnetBytes in the probing loop: it starts at {16, 0},
\* subnetBytes[1]++ up to 255, then subnetBytes[0]++ and subnetBytes[1] = 0
SubnetProbeBytes(p) == <<SubnetFirstByte + (p \div (ByteMax + 1)), p % (ByteMax + 1)>>

\* number of values subnetBytes takes before {31, 255} has been tried
SubnetProbeCount == (SubnetLastByte - SubnetFirstByte + 1) * (ByteMax + 1)

\* mutant: the index of {31, 255} is never found claimed
SubnetClaimed_LastFree(allSubnets, i) ==
    i \in allSubnets /\ i # BigEndianUint16(<<SubnetLastByte, ByteMax>>)

\* ok := ds.allSubnets[int(i)]
SubnetClaimed(allSubnets, i) == i \in allSubnets

\* mutant: when {31, 255} is reached the probe wraps around to {16, 0}
ProbeSubnet_Wrap(allSubnets) ==
    LET free(p) == BigEndianUint16(SubnetProbeBytes(p)) \notin allSubnets
    IN  IF \A p \in 0..(SubnetProbeCount - 1) : ~free(p)
        THEN [found |-> TRUE, bytes |-> SubnetProbeBytes(0)]
        ELSE [found |-> TRUE,
              bytes |-> SubnetProbeBytes(
                  CHOOSE p \in 0..(SubnetProbeCount - 1) :
                      free(p) /\ \A q \in 0..(p - 1) : ~free(q))]

\* the probing loop: the first subnetBytes whose index is not in allSubnets;
\* found = FALSE when {31, 255} was reached without finding one
ProbeSubnet(allSubnets) ==
    LET free(p) == ~SubnetClaimed(allSubnets, BigEndianUint16(SubnetProbeBytes(p)))
    IN  IF \A p \in 0..(SubnetProbeCount - 1) : ~free(p)
        THEN [found |-> FALSE, bytes |-> <<SubnetLastByte, ByteMax>>]
        ELSE [found |-> TRUE,
              bytes |-> SubnetProbeBytes(
                  CHOOSE p \in 0..(SubnetProbeCount - 1) :
                      free(p) /\ \A q \in 0..(p - 1) : ~free(q))]

\* mutant: the new subnet is not entered in the process-wide set
ClaimSubnet_NoClaim(allSubnets, i) == allSubnets

\* ds.allSubnets[int(i)] = true
ClaimSubnet(allSubnets, i) == allSubnets \cup {i}

\* mutant: the host loop starts at rest := 0
ProbeHost_FromZero(hosts) ==
    IF \A r \in 0..ByteMax : BoolAt(hosts, r) THEN 0
    ELSE CHOOSE r \in 0..ByteMax :
             ~BoolAt(hosts, r) /\ \A q \in 0..(r - 1) : BoolAt(hosts, q)

\* the host loop: the first rest in 2..255 with hosts[rest] == false;
\* 0 when rest reached 255 with every slot claimed
ProbeHost(hosts) ==
    IF \A r \in FirstHost..ByteMax : BoolAt(hosts, r) THEN 0
    ELSE CHOOSE r \in FirstHost..ByteMax :
             ~BoolAt(hosts, r) /\ \A q \in FirstHost..(r - 1) : BoolAt(hosts, q)

\* mutant: the slot is handed out without being marked
ClaimHost_NoMark(hosts, rest) == hosts

\* hosts[rest] = true
ClaimHost(hosts, rest) == [on |-> hosts.on \cup {rest}, off |-> hosts.off \ {rest}]

\* AllocateTenantIP: the section under tenantsLock, the goroutine started
\* and the address returned.  Result: the datastore after the call, the
\* address, the error, whether the call panicked, and the store calls
\* started with go.
AllocateTenantIP(d, tenantID) ==
    IF ~TenantCached(d, tenantID)
    THEN [ds |-> d, ip |-> NilIP, err |-> "", panic |-> TRUE, jobs |-> <<>>]
    ELSE
    LET t == d.tenants[tenantID]
        subnets == SortInts(t.subnets)
        picked == PickSubnet(t.network, subnets)
        probe == ProbeSubnet(d.allSubnets)
        newIdx == BigEndianUint16(probe.bytes)
        sorted == [d EXCEPT !.tenants[tenantID].subnets = subnets]
    IN  IF picked = 0 /\ ~probe.found
        THEN [ds |-> sorted, ip |-> NilIP, err |-> "Out of subnets", panic |-> FALSE,
              jobs |-> <<>>]
        ELSE
        LET subnetInt == IF picked = 0 THEN newIdx ELSE picked
            subnetBytes == IF picked = 0 THEN probe.bytes ELSE PutUint16(subnetInt)
            network1 == IF picked = 0 THEN MapPut(t.network, newIdx, EmptyHosts) ELSE t.network
            all1 == IF picked = 0 THEN ClaimSubnet(d.allSubnets, newIdx) ELSE d.allSubnets
            subnets1 == IF picked = 0 THEN Append(subnets, subnetInt) ELSE subnets
            d1 == [d EXCEPT !.allSubnets = all1,
                            !.tenants[tenantID].network = network1,
                            !.tenants[tenantID].subnets = subnets1]
        IN  IF subnetInt \notin DOMAIN network1
            THEN \* hosts is a nil map: hosts[rest] = true panics
                 [ds |-> d1, ip |-> NilIP, err |-> "", panic |-> TRUE, jobs |-> <<>>]
            ELSE
            LET hosts == network1[subnetInt]
                rest == ProbeHost(hosts)
            IN  IF rest = 0
                THEN [ds |-> d1, ip |-> NilIP, err |-> "rand out of host numbers",
                      panic |-> FALSE, jobs |-> <<>>]
                ELSE [ds |-> [d1 EXCEPT !.tenants[tenantID].network[subnetInt] =
                                            ClaimHost(hosts, rest)],
                      ip |-> IPv4(IPPrefix, subnetBytes[1], subnetBytes[2], rest),
                      err |-> "", panic |-> FALSE,
                      \* go ds.db.claimTenantIP(tenantID, int(subnetInt), rest)
                      jobs |-> <<[op |-> "claimTenantIP", tenant |-> tenantID,
                                  subnet |-> subnetInt, rest |-> rest]>>]

\* mutant: the release empties the whole subnet
ReleaseHost_All(hosts, rest) == [on |-> {}, off |-> hosts.on \cup hosts.off]

\* ds.tenants[tenantID].network[int(subnetInt)][int(ipBytes[3])] = false
ReleaseHost(hosts, rest) == [on |-> hosts.on \ {rest}, off |-> hosts.off \cup {rest}]

\* ReleaseTenantIP, the section under tenantsLock for the subnet and host
\* read from the address
ReleaseTenantIPCache(d, tenantID, subnetInt, rest) ==
    IF ~TenantCached(d, tenantID) THEN [ds |-> d, panic |-> FALSE]
    ELSE IF subnetInt \notin DOMAIN d.tenants[tenantID].network
    THEN \* network[subnetInt] is a nil map: the assignment panics
         [ds |-> d, panic |-> TRUE]
    ELSE [ds |-> [d EXCEPT !.tenants[tenantID].network[subnetInt] = ReleaseHost(@, rest)],
          panic |-> FALSE]

\* newHardwareAddr with the random bytes drawn: byte 0 forced to 2, byte 1
\* forced non-zero
NewHardwareAddr(buf) == <<2, IF buf[2] = 0 THEN 3 ELSE buf[2]>> \o SubSeq(buf, 3, 6)

\* getTenant, the section under tenantsLock.RLock: the cached tenant, nil
\* when there is none
GetTenantCache(d, id) == IF TenantCached(d, id) THEN d.tenants[id] ELSE NilTenant

\* AddTenant, the section under tenantsLock.Lock with the tenant t that
\* getTenant returned, and the return
AddTenantCache(d, id, t) ==
    \* return &t.Tenant, err: a nil t is dereferenced
    [ds |-> [d EXCEPT !.tenants = MapPut(@, id, t)], err |-> "", panic |-> IsNilTenant(t)]

\* AddTenant on the store s; dbOK says whether the persistent store could
\* add and return the tenant.  getTenant returns the cached tenant when
\* there is one.
AddTenant(d, s, id, buf, dbOK) ==
    LET cached == GetTenantCache(d, id)
        t == IF ~IsNilTenant(cached) THEN cached
             ELSE IF dbOK THEN GetTenantNoCache(s, id, NewHardwareAddr(buf))
             ELSE NilTenant
    IN  AddTenantCache(d, id, t)

\* AddLimit: ds.db.addLimit first (the limits table is not kept), whose
\* error ends the call; then the section under tenantsLock
AddLimit(d, tenantID, resourceID, limit, dbOK) ==
    IF ~dbOK THEN [ds |-> d, err |-> "db"]
    ELSE IF ~TenantCached(d, tenantID) THEN [ds |-> d, err |-> ""]
    ELSE LET resources == d.tenants[tenantID].Resources
             hits == {j \in 1..Len(resources) : resources[j].Rtype = resourceID}
             first == CHOOSE j \in hits : \A o \in hits : j <= o
         IN  IF hits = {} THEN [ds |-> d, err |-> ""]
             ELSE [ds |-> [d EXCEPT !.tenants[tenantID].Resources[first].Limit = limit],
                   err |-> ""]

----------------------------------------------------------------------------
(* Instances.  The tenant and node indices hold pointers to the instance   *)
(* stored in ds.instances; they are modelled as sets of instance IDs.      *)

\* a nil *types.Instance
NilInstance == [nil |-> TRUE]

IsNilInstance(i) == "nil" \in DOMAIN i

\* index of the first resource with Rname == name, 0 when there is none
ResourceByName(resources, name) ==
    IF \E j \in 1..Len(resources) : resources[j].Rname = name
    THEN CHOOSE j \in 1..Len(resources) :
             /\ resources[j].Rname = name
             /\ \A q \in 1..(j - 1) : resources[q].Rname # name
    ELSE 0

\* index of the first resource with Rtype == 1, 0 when there is none
ResourceInstances(resources) ==
    IF \E j \in 1..Len(resources) : resources[j].Rtype = InstancesRtype
    THEN CHOOSE j \in 1..Len(resources) :
             /\ resources[j].Rtype = InstancesRtype
             /\ \A q \in 1..(j - 1) : resources[q].Rtype # InstancesRtype
    ELSE 0

\* for name, val := range usage { ... tenant.Resources[i].Usage += sign * val; break }
ApplyUsage(resources, usage, sign) ==
    [j \in 1..Len(resources) |->
        LET names == {name \in DOMAIN usage : ResourceByName(resources, name) = j}
        IN  IF names = {} THEN resources[j]
            ELSE [resources[j] EXCEPT
                     !.Usage = @ + sign * usage[CHOOSE name \in names : TRUE]]]

\* tenant.Resources[i].Usage++ / -- on the instance-count resource
CountInstance(resources, sign) ==
    [j \in 1..Len(resources) |->
        IF j = ResourceInstances(resources)
        THEN [resources[j] EXCEPT !.Usage = @ + sign]
        ELSE resources[j]]

\* the CiaoServerStats record AddInstance stores
NewInstanceStat(instance) ==
    [ID |-> instance.ID, TenantID |-> instance.TenantID, NodeID |-> instance.NodeID,
     Status |-> instance.State, VCPUUsage |-> 0, MemUsage |-> 0, DiskUsage |-> 0]

\* AddInstance, first section: instancesLock, with instanceLastStatLock inside
AddInstanceCache(d, instance) ==
    [d EXCEPT !.instances = MapPut(@, instance.ID, instance),
              !.instanceLastStat = MapPut(@, instance.ID, NewInstanceStat(instance))]

\* AddInstance, second section: tenantsLock
AddInstanceTenant(d, instance) ==
    IF ~TenantCached(d, instance.TenantID) THEN d
    ELSE [d EXCEPT
            !.tenants[instance.TenantID].Resources =
                CountInstance(ApplyUsage(@, instance.Usage, 1), 1),
            !.tenants[instance.TenantID].instances = @ \cup {instance.ID}]

\* AddInstance.  Result: the datastore after the call, the error, whether
\* the call panicked, and the store call started with go.
AddInstance(d, instance) ==
    [ds |-> AddInstanceTenant(AddInstanceCache(d, instance), instance),
     err |-> "", panic |-> FALSE,
     \* go ds.db.addInstance(instance)
     jobs |-> <<[op |-> "addInstance", id |-> instance.ID]>>]

\* deleteInstance: delete(ds.instanceLastStat, instanceID)
DeleteInstanceLastStat(d, instanceID) ==
    [d EXCEPT !.instanceLastStat = MapDel(@, instanceID)]

\* deleteInstance: i := ds.instances[instanceID]
LookupInstance(d, instanceID) ==
    IF instanceID \in DOMAIN d.instances THEN d.instances[instanceID] ELSE NilInstance

\* deleteInstance: delete(ds.instances, instanceID)
DeleteInstanceCache(d, instanceID) ==
    [d EXCEPT !.instances = MapDel(@, instanceID)]

\* mutant: the instance count is not decremented
DeleteInstanceTenant_KeepCount(d, i, instanceID) ==
    IF IsNilInstance(i) \/ ~TenantCached(d, i.TenantID)
    THEN [ds |-> d, panic |-> TRUE]
    ELSE [ds |-> [d EXCEPT
                    !.tenants[i.TenantID].instances = @ \ {instanceID},
                    !.tenants[i.TenantID].Resources = ApplyUsage(@, i.Usage, -1)],
          panic |-> FALSE]

\* deleteInstance, the section under tenantsLock: tenant.instances is read
\* before tenant is compared with nil, and i is dereferenced unchecked
DeleteInstanceTenant(d, i, instanceID) ==
    IF IsNilInstance(i) \/ ~TenantCached(d, i.TenantID)
    THEN [ds |-> d, panic |-> TRUE]
    ELSE [ds |-> [d EXCEPT
                    !.tenants[i.TenantID].instances = @ \ {instanceID},
                    !.tenants[i.TenantID].Resources =
                        CountInstance(ApplyUsage(@, i.Usage, -1), -1)],
          panic |-> FALSE]

\* deleteInstance, the section under nodesLock: ds.nodes[i.NodeID] is
\* dereferenced unchecked
DeleteInstanceNode(d, i, instanceID) ==
    IF i.NodeID = "" THEN [ds |-> d, panic |-> FALSE]
    ELSE IF i.NodeID \notin DOMAIN d.nodes THEN [ds |-> d, panic |-> TRUE]
    ELSE [ds |-> [d EXCEPT !.nodes[i.NodeID].instances = @ \ {instanceID}],
          panic |-> FALSE]

----------------------------------------------------------------------------
(* Block devices and storage attachments.  An attachment ID is the number  *)
(* of the uuid.Generate call that made it; uuid counts the calls so far.   *)
(* The key of ds.instanceVolumes, the struct attachment, is the pair       *)
(* <<instanceID, volumeID>>.                                               *)

Available == "available"
Attaching == "attaching"
InUse == "in-use"
Detaching == "detaching"

ErrNoBlockData == "Block Device not found"
ErrNoStorageAttachment == "No Volume Attached"

\* AddBlockDevice, the section under bdLock
AddBlockDeviceGlobal(d, device) == [d EXCEPT !.blockDevices = MapPut(@, device.ID, device)]

\* AddBlockDevice, the section under tenantsLock: the tenant pointer is
\* dereferenced unchecked
AddBlockDeviceTenant(d, device) ==
    IF ~TenantCached(d, device.TenantID) THEN [ds |-> d, panic |-> TRUE]
    ELSE [ds |-> [d EXCEPT !.tenants[device.TenantID].devices = MapPut(@, device.ID, device)],
          panic |-> FALSE]

\* AddBlockDevice: bdLock, then tenantsLock.  The block data it stores
\* with go ds.db.createBlockData or updateBlockData is in no table kept.
AddBlockDevice(d, device) ==
    LET r == AddBlockDeviceTenant(AddBlockDeviceGlobal(d, device), device)
    IN  [ds |-> r.ds, err |-> "", panic |-> r.panic]

\* DeleteBlockDevice
DeleteBlockDevice(d, ID) ==
    IF ID \notin DOMAIN d.blockDevices
    THEN [ds |-> d, err |-> ErrNoBlockData, panic |-> FALSE]
    ELSE LET dev == d.blockDevices[ID]
             d1 == [d EXCEPT !.blockDevices = MapDel(@, ID)]
         IN  IF ~TenantCached(d1, dev.TenantID)
             THEN [ds |-> d1, err |-> "", panic |-> TRUE]
             ELSE [ds |-> [d1 EXCEPT !.tenants[dev.TenantID].devices = MapDel(@, ID)],
                   err |-> "", panic |-> FALSE]

\* GetBlockDevice: ok is false for ErrNoBlockData
GetBlockDevice(d, ID) ==
    IF ID \in DOMAIN d.blockDevices
    THEN [ok |-> TRUE, data |-> d.blockDevices[ID]]
    ELSE [ok |-> FALSE, data |-> [ID |-> "", TenantID |-> "", State |-> ""]]

\* types.StorageAttachment
NewAttachment(ID, instanceID, blockID) ==
    [ID |-> ID, InstanceID |-> instanceID, BlockID |-> blockID]

\* ds.attachments[ID]: the zero value for a missing key
AttachmentAt(d, ID) ==
    IF ID \in DOMAIN d.attachments THEN d.attachments[ID] ELSE NewAttachment(0, "", "")

\* createStorageAttachment: the cache is written whether or not the
\* persistent store accepts the attachment (dbOK)
CreateStorageAttachment(d, u, instanceID, blockID, dbOK) ==
    LET a == NewAttachment(u + 1, instanceID, blockID)
    IN  [ds |-> [d EXCEPT !.attachments = MapPut(@, a.ID, a),
                          !.instanceVolumes = MapPut(@, <<instanceID, blockID>>, a.ID)],
         uuid |-> u + 1, a |-> a,
         err |-> IF dbOK THEN "" ELSE "db", panic |-> FALSE]

\* getStorageAttachment
GetStorageAttachment(d, instanceID, volumeID) ==
    IF <<instanceID, volumeID>> \in DOMAIN d.instanceVolumes
    THEN [a |-> AttachmentAt(d, d.instanceVolumes[<<instanceID, volumeID>>]), err |-> ""]
    ELSE [a |-> NewAttachment(0, "", ""), err |-> ErrNoStorageAttachment]

\* mutant: a missing attachment is no error
DeleteStorageAttachment_Silent(d, ID, dbOK) ==
    IF ID \notin DOMAIN d.attachments
    THEN [ds |-> d, err |-> "", panic |-> FALSE]
    ELSE LET a == d.attachments[ID]
         IN  [ds |-> [d EXCEPT !.attachments = MapDel(@, ID),
                               !.instanceVolumes = MapDel(@, <<a.InstanceID, a.BlockID>>)],
              err |-> IF dbOK THEN "" ELSE "db", panic |-> FALSE]

\* deleteStorageAttachment
DeleteStorageAttachment(d, ID, dbOK) ==
    IF ID \notin DOMAIN d.attachments
    THEN [ds |-> d, err |-> ErrNoStorageAttachment, panic |-> FALSE]
    ELSE LET a == d.attachments[ID]
         IN  [ds |-> [d EXCEPT !.attachments = MapDel(@, ID),
                               !.instanceVolumes = MapDel(@, <<a.InstanceID, a.BlockID>>)],
              err |-> IF dbOK THEN "" ELSE "db", panic |-> FALSE]

----------------------------------------------------------------------------
(* Nodes and statistics.  addInstanceStats starts one updateTenantUsage    *)
(* goroutine per instance statistic; the goroutines started and not yet    *)
(* run are the sequence jobs.                                              *)

\* &node{} with an empty instance index
NewNode == [ID |-> "", Hostname |-> "", instances |-> {}]

\* addNodeStat, the section under nodesLock
AddNodeStatNode(d, stat) ==
    LET n == IF stat.NodeUUID \in DOMAIN d.nodes THEN d.nodes[stat.NodeUUID] ELSE NewNode
    IN  [d EXCEPT
            !.nodes = MapPut(@, stat.NodeUUID,
                             [n EXCEPT !.ID = stat.NodeUUID, !.Hostname = stat.NodeHostName])]

\* addNodeStat, the section under nodeLastStatLock
AddNodeStatLast(d, stat) ==
    [d EXCEPT
        !.nodeLastStat = MapPut(@, stat.NodeUUID,
                                [ID |-> stat.NodeUUID, Status |-> stat.Status,
                                 Load |-> stat.Load])]

\* addNodeStat; the statistics it hands to ds.db.addNodeStatDB are in no
\* table kept
AddNodeStat(d, stat) == AddNodeStatLast(AddNodeStatNode(d, stat), stat)

\* reduceToZero
ReduceToZero(v) == IF v < 0 THEN 0 ELSE v

\* ds.instanceLastStat[id]: the zero value for a missing key
LastStatAt(d, id) ==
    IF id \in DOMAIN d.instanceLastStat THEN d.instanceLastStat[id]
    ELSE [ID |-> "", TenantID |-> "", NodeID |-> "", Status |-> "",
          VCPUUsage |-> 0, MemUsage |-> 0, DiskUsage |-> 0]

\* addInstanceStats, the section under instanceLastStatLock
AddInstanceLastStat(d, nodeID, stat) ==
    LET last == LastStatAt(d, stat.InstanceUUID)
        instanceStat ==
            [ID |-> stat.InstanceUUID, TenantID |-> last.TenantID, NodeID |-> nodeID,
             Status |-> stat.State,
             VCPUUsage |-> ReduceToZero(stat.CPUUsage),
             MemUsage |-> ReduceToZero(stat.MemoryUsageMB),
             DiskUsage |-> ReduceToZero(stat.DiskUsageMB)]
    IN  [ds |-> [d EXCEPT !.instanceLastStat =
                              MapPut(@, stat.InstanceUUID, instanceStat)],
         job |-> [tenant |-> last.TenantID,
                  VCPU |-> instanceStat.VCPUUsage - last.VCPUUsage,
                  Memory |-> instanceStat.MemUsage - last.MemUsage,
                  Disk |-> instanceStat.DiskUsage - last.DiskUsage]]

\* addInstanceStats, the section under instancesLock with nodesLock
\* inside: ds.nodes[nodeID] is dereferenced unchecked
AddInstanceNode(d, nodeID, stat) ==
    IF stat.InstanceUUID \notin DOMAIN d.instances THEN [ds |-> d, panic |-> FALSE]
    ELSE LET d1 == [d EXCEPT !.instances[stat.InstanceUUID] =
                                [@ EXCEPT !.State = stat.State, !.NodeID = nodeID,
                                          !.SSHIP = stat.SSHIP, !.SSHPort = stat.SSHPort]]
         IN  IF nodeID \notin DOMAIN d1.nodes THEN [ds |-> d1, panic |-> TRUE]
             ELSE [ds |-> [d1 EXCEPT !.nodes[nodeID].instances = @ \cup {stat.InstanceUUID}],
                   panic |-> FALSE]

\* DeleteNode, the section under nodesLock
DeleteNodeNode(d, nodeID) == [d EXCEPT !.nodes = MapDel(@, nodeID)]

\* DeleteNode, the section under nodeLastStatLock
DeleteNodeLast(d, nodeID) == [d EXCEPT !.nodeLastStat = MapDel(@, nodeID)]

----------------------------------------------------------------------------
(* CNCI notification.  A channel is a positive number, NilChan the nil     *)
(* channel.                                                                *)

NilChan == 0

ErrNoTenant == "Tenant not found"

\* GetBlockDevices: the devices of the tenant, in any order
GetBlockDevices(d, tenant) ==
    IF tenant \notin DOMAIN d.tenants
    THEN [devices |-> {}, err |-> ErrNoTenant, panic |-> FALSE]
    ELSE IF IsNilTenant(d.tenants[tenant])
    THEN [devices |-> {}, err |-> "", panic |-> TRUE]
    ELSE [devices |-> {d.tenants[tenant].devices[ID] : ID \in DOMAIN d.tenants[tenant].devices},
          err |-> "", panic |-> FALSE]

\* AddTenantChan
AddTenantChan(d, c, tenantID) ==
    [d EXCEPT !.cnciAddedChans = MapPut(@, tenantID, c)]

\* AddTenantCNCI
AddTenantCNCI(d, tenantID, instanceID, mac) ==
    IF tenantID \notin DOMAIN d.tenants THEN [ds |-> d, err |-> ErrNoTenant, panic |-> FALSE]
    ELSE IF IsNilTenant(d.tenants[tenantID]) THEN [ds |-> d, err |-> "", panic |-> TRUE]
    ELSE [ds |-> [d EXCEPT !.tenants[tenantID].CNCIID = instanceID,
                           !.tenants[tenantID].CNCIMAC = mac],
          err |-> "", panic |-> FALSE]

\* mutant: the CNCI IP is kept
RemoveTenantCNCI_KeepIP(d, tenantID) ==
    IF tenantID \notin DOMAIN d.tenants THEN [ds |-> d, err |-> ErrNoTenant, panic |-> FALSE]
    ELSE IF IsNilTenant(d.tenants[tenantID]) THEN [ds |-> d, err |-> "", panic |-> TRUE]
    ELSE [ds |-> [d EXCEPT !.tenants[tenantID].CNCIID = ""],
          err |-> "", panic |-> FALSE]

\* removeTenantCNCI
RemoveTenantCNCI(d, tenantID) ==
    IF tenantID \notin DOMAIN d.tenants THEN [ds |-> d, err |-> ErrNoTenant, panic |-> FALSE]
    ELSE IF IsNilTenant(d.tenants[tenantID]) THEN [ds |-> d, err |-> "", panic |-> TRUE]
    ELSE [ds |-> [d EXCEPT !.tenants[tenantID].CNCIID = "",
                           !.tenants[tenantID].CNCIIP = ""],
          err |-> "", panic |-> FALSE]

\* AddCNCIIP, the section under tenantsLock: the range stops at any tenant
\* with the MAC address; it dereferences a nil tenant it meets on the way.
\* Result: the set of possible outcomes.
AddCNCIIPTenant(d, cnciMAC, ip) ==
    LET found == {id \in CachedTenants(d) : d.tenants[id].CNCIMAC = cnciMAC}
        nils == DOMAIN d.tenants \ CachedTenants(d)
    IN  {[ds |-> [d EXCEPT !.tenants[id].CNCIIP = ip], tenant |-> id,
          err |-> "", panic |-> FALSE] : id \in found}
        \cup (IF nils # {} THEN {[ds |-> d, tenant |-> "", err |-> "", panic |-> TRUE]}
              ELSE IF found = {}
              THEN {[ds |-> d, tenant |-> "", err |-> ErrNoTenant, panic |-> FALSE]}
              ELSE {})

\* StartFailure, the section under tenantsLock.RLock: the tenants whose
\* CNCI is the instance
StartFailureTenant(d, instanceID) ==
    LET found == {id \in CachedTenants(d) : d.tenants[id].CNCIID = instanceID}
        nils == DOMAIN d.tenants \ CachedTenants(d)
    IN  {[cnci |-> TRUE, tenant |-> id, panic |-> FALSE] : id \in found}
        \cup (IF nils # {} THEN {[cnci |-> FALSE, tenant |-> "", panic |-> TRUE]}
              ELSE IF found = {} THEN {[cnci |-> FALSE, tenant |-> "", panic |-> FALSE]}
              ELSE {})

\* mutant: the channel is read and left in the registry
PopChan_Keep(d, tenantID) ==
    IF tenantID \in DOMAIN d.cnciAddedChans
    THEN [ds |-> d, c |-> d.cnciAddedChans[tenantID]]
    ELSE [ds |-> d, c |-> NilChan]

\* AddCNCIIP and StartFailure, the section under cnciAddedLock
PopChan(d, tenantID) ==
    IF tenantID \in DOMAIN d.cnciAddedChans
    THEN [ds |-> [d EXCEPT !.cnciAddedChans = MapDel(@, tenantID)],
          c |-> d.cnciAddedChans[tenantID]]
    ELSE [ds |-> d, c |-> NilChan]

\* the reasons for which StartFailure deletes the instance
DeletingReasons ==
    {"FullCloud", "FullComputeNode", "NoComputeNodes", "NoNetworkNodes",
     "InvalidPayload", "InvalidData", "ImageFailure", "NetworkFailure"}

\* db.logEvent(tenantID, eventType, message): the entry logged; of the
\* message the entry keeps the text before the instance ID
LogEntry(tenantID, eventType, message) ==
    [tenant |-> tenantID, type |-> eventType, msg |-> message]

userInfo == "info"
userError == "error"

----------------------------------------------------------------------------
(* The locks.  Each operation is the sequence of Lock, RLock, Unlock and   *)
(* RUnlock calls it makes, in program order; the parameters say which      *)
(* branches it takes.                                                      *)

LockNames ==
    {"attach", "bd", "instances", "tenants", "nodes", "instanceLastStat",
     "nodeLastStat", "cnciAdded", "tenantUsage"}

\* x.Lock(); x.Unlock()
Sec(x) == << <<"Lock", x>>, <<"Unlock", x>> >>

\* x.RLock(); x.RUnlock()
RSec(x) == << <<"RLock", x>>, <<"RUnlock", x>> >>

AllocateTenantIPLocks == Sec("tenants")

\* ReleaseTenantIP returns before the lock for an address that does not parse
ReleaseTenantIPLocks(parses) == IF parses THEN Sec("tenants") ELSE <<>>

\* AddLimit returns before the lock when the persistent store fails
AddLimitLocks(dbOK) == IF dbOK THEN Sec("tenants") ELSE <<>>

\* AddCNCIIP returns after the tenant section when no tenant has the MAC
AddCNCIIPLocks(found) == Sec("tenants") \o (IF found THEN Sec("cnciAdded") ELSE <<>>)

AddInstanceLocks ==
    << <<"Lock", "instances">>, <<"Lock", "instanceLastStat">>,
       <<"Unlock", "instanceLastStat">>, <<"Unlock", "instances">> >>
    \o Sec("tenants")

\* deleteInstance; onNode: i.NodeID != ""
DeleteInstanceLocks(onNode, parses) ==
    Sec("instanceLastStat") \o Sec("instances") \o Sec("tenants")
    \o (IF onNode THEN Sec("nodes") ELSE <<>>)
    \o ReleaseTenantIPLocks(parses)

\* StartFailure; cnci: the instance is a tenant's CNCI; known: GetInstance
\* finds it; deletes: the reason calls for deleteInstance; onNode and
\* parses: as for deleteInstance
StartFailureLocks(cnci, known, deletes, onNode, parses) ==
    RSec("tenants")
    \o (IF cnci THEN Sec("tenants") \o Sec("cnciAdded")
        ELSE RSec("instances")
             \o (IF known /\ deletes THEN DeleteInstanceLocks(onNode, parses) ELSE <<>>))

\* mutant: the tenant section encloses the block device section
AddBlockDeviceLocks_Nested ==
    << <<"Lock", "tenants">>, <<"Lock", "bd">>, <<"Unlock", "bd">>,
       <<"Unlock", "tenants">> >>

AddBlockDeviceLocks == Sec("bd") \o Sec("tenants")

GetBlockDeviceLocks == RSec("bd")

UpdateBlockDeviceLocks(known) ==
    RSec("bd") \o (IF known THEN AddBlockDeviceLocks ELSE <<>>)

DeleteBlockDeviceLocks ==
    << <<"Lock", "bd">>, <<"Lock", "tenants">>, <<"Unlock", "tenants">>,
       <<"Unlock", "bd">> >>

\* the volumes whose state updateStorageAttachments sets: "cached" is a
\* device of ds.blockDevices, "missing" one GetBlockDevice does not find,
\* "removed" one deleted between GetBlockDevice and UpdateBlockDevice
VolumeKinds == {"cached", "missing", "removed"}

\* updateStorageAttachments setting the state of the volumes vols, a
\* sequence of VolumeKinds: attachLock is held around GetBlockDevice and
\* UpdateBlockDevice, and the loops go on to the next volume when
\* GetBlockDevice fails
UpdateStorageAttachmentsLocks(vols) ==
    LET calls[i \in 0..Len(vols)] ==
            IF i = 0 THEN <<>>
            ELSE calls[i - 1] \o GetBlockDeviceLocks
                 \o (IF vols[i] = "missing" THEN <<>>
                     ELSE UpdateBlockDeviceLocks(vols[i] = "cached"))
    IN  << <<"Lock", "attach">> >> \o calls[Len(vols)] \o << <<"Unlock", "attach">> >>

AddNodeStatLocks == Sec("nodes") \o Sec("nodeLastStat")

\* addInstanceStats for the statistics stats, a sequence of records:
\* known says the instance is in ds.instances, vols are the volumes whose
\* state updateStorageAttachments sets
AddInstanceStatsLocks(stats) ==
    LET calls[i \in 0..Len(stats)] ==
            IF i = 0 THEN <<>>
            ELSE calls[i - 1]
                 \o Sec("instanceLastStat")
                 \o << <<"Lock", "instances">> >>
                 \o (IF stats[i].known THEN Sec("nodes") ELSE <<>>)
                 \o << <<"Unlock", "instances">> >>
                 \o UpdateStorageAttachmentsLocks(stats[i].vols)
    IN  calls[Len(stats)]

\* HandleStats; load: stat.Load != -1
HandleStatsLocks(load, stats) ==
    (IF load THEN AddNodeStatLocks ELSE <<>>) \o AddInstanceStatsLocks(stats)

\* updateTenantUsage returns before the lock when the delta is all zero
UpdateTenantUsageLocks(needed) == IF needed THEN Sec("tenantUsage") ELSE <<>>

\* the statistics of the lock specification
StatShapes ==
    {<<>>} \cup {<<[known |-> known, vols |-> vols]>> :
                    known \in BOOLEAN,
                    vols \in {<<>>} \cup {<<k>> : k \in VolumeKinds}}

\* the calls of the lock specification
LockScripts ==
    {[op |-> "AllocateTenantIP", steps |-> AllocateTenantIPLocks],
     [op |-> "AddInstance", steps |-> AddInstanceLocks],
     [op |-> "AddBlockDevice", steps |-> AddBlockDeviceLocks],
     [op |-> "DeleteBlockDevice", steps |-> DeleteBlockDeviceLocks]}
    \cup {[op |-> "ReleaseTenantIP", steps |-> ReleaseTenantIPLocks(parses)] :
             parses \in BOOLEAN}
    \cup {[op |-> "AddLimit", steps |-> AddLimitLocks(dbOK)] : dbOK \in BOOLEAN}
    \cup {[op |-> "updateTenantUsage", steps |-> UpdateTenantUsageLocks(needed)] :
             needed \in BOOLEAN}
    \cup {[op |-> "AddCNCIIP", steps |-> AddCNCIIPLocks(found)] : found \in BOOLEAN}
    \cup {[op |-> "DeleteInstance", steps |-> DeleteInstanceLocks(onNode, parses)] :
             onNode \in BOOLEAN, parses \in BOOLEAN}
    \cup {[op |-> "StartFailure",
           steps |-> StartFailureLocks(cnci, known, deletes, onNode, parses)] :
             cnci \in BOOLEAN, known \in BOOLEAN, deletes \in BOOLEAN,
             onNode \in BOOLEAN, parses \in BOOLEAN}
    \cup {[op |-> "UpdateBlockDevice", steps |-> UpdateBlockDeviceLocks(known)] :
             known \in BOOLEAN}
    \cup {[op |-> "updateStorageAttachments", steps |-> UpdateStorageAttachmentsLocks(vols)] :
             vols \in {<<>>} \cup {<<k>> : k \in VolumeKinds}}
    \cup {[op |-> "HandleStats", steps |-> HandleStatsLocks(load, stats)] :
             load \in BOOLEAN, stats \in StatShapes}

\* sync.RWMutex: the writer, the readers, and the goroutines blocked in
\* Lock, which keep new readers out
FreeLock == [writer |-> 0, readers |-> {}, pending |-> {}]

CanLock(l) == l.writer = 0 /\ l.readers = {}

CanRLock(l) == l.writer = 0 /\ l.pending = {}

----------------------------------------------------------------------------
(* Tenant usage history.  A timestamp is a number of minutes.              *)

\* tenantUsagePeriodMinutes
UsagePeriod == 5

\* updateTenantUsageNeeded
UpdateTenantUsageNeeded(delta) ==
    ~(delta.VCPU = 0 /\ delta.Memory = 0 /\ delta.Disk = 0)

\* ds.tenantUsage[tenantID]: the nil slice for a missing key
TenantUsageAt(d, tenantID) ==
    IF tenantID \in DOMAIN d.tenantUsage THEN d.tenantUsage[tenantID] ELSE <<>>

\* updateTenantUsage without the sampling period: every nonzero delta appends
UpdateTenantUsage_Always(d, delta, t) ==
    LET tenantUsage == TenantUsageAt(d, delta.tenant)
        lastUsage == IF Len(tenantUsage) # 0 THEN tenantUsage[Len(tenantUsage)]
                     ELSE [VCPU |-> 0, Memory |-> 0, Disk |-> 0, Timestamp |-> 0]
        newUsage == [VCPU |-> lastUsage.VCPU + delta.VCPU,
                     Memory |-> lastUsage.Memory + delta.Memory,
                     Disk |-> lastUsage.Disk + delta.Disk,
                     Timestamp |-> t]
    IN  IF ~UpdateTenantUsageNeeded(delta) THEN d
        ELSE [d EXCEPT !.tenantUsage =
                           MapPut(@, delta.tenant, Append(tenantUsage, newUsage))]

\* updateTenantUsage at time t; delta carries the tenant ID
UpdateTenantUsage(d, delta, t) ==
    LET tenantUsage == TenantUsageAt(d, delta.tenant)
        lastUsage == IF Len(tenantUsage) # 0 THEN tenantUsage[Len(tenantUsage)]
                     ELSE [VCPU |-> 0, Memory |-> 0, Disk |-> 0, Timestamp |-> 0]
        createNewUsage == ~(Len(tenantUsage) # 0 /\ t - lastUsage.Timestamp < UsagePeriod)
        newUsage == [VCPU |-> lastUsage.VCPU + delta.VCPU,
                     Memory |-> lastUsage.Memory + delta.Memory,
                     Disk |-> lastUsage.Disk + delta.Disk,
                     Timestamp |-> IF createNewUsage THEN t ELSE lastUsage.Timestamp]
    IN  IF ~UpdateTenantUsageNeeded(delta) THEN d
        ELSE IF createNewUsage
        THEN [d EXCEPT !.tenantUsage =
                           MapPut(@, delta.tenant, Append(tenantUsage, newUsage))]
        ELSE [d EXCEPT !.tenantUsage[delta.tenant] =
                           [@ EXCEPT ![Len(tenantUsage)] = newUsage]]

\* GetTenantUsage: the slice returned, or the panic of tenantUsage[first:last]
\* with first > last
GetTenantUsage(d, tenantID, start, end) ==
    LET tenantUsage == TenantUsageAt(d, tenantID)
        historyLength == Len(tenantUsage)
        first == Cardinality({k \in 1..historyLength : start > tenantUsage[k].Timestamp})
        last == Cardinality({k \in 1..historyLength : end > tenantUsage[k].Timestamp})
    IN  IF historyLength = 0 THEN [usage |-> <<>>, panic |-> FALSE]
        ELSE IF tenantUsage[1].Timestamp > end \/ start > tenantUsage[historyLength].Timestamp
        THEN [usage |-> <<>>, panic |-> FALSE]
        ELSE IF first > last THEN [usage |-> <<>>, panic |-> TRUE]
        ELSE [usage |-> SubSeq(tenantUsage, first + 1, last), panic |-> FALSE]

----------------------------------------------------------------------------
(* The failure handlers.  Each result carries the entries the handler      *)
(* appends to the event log.                                               *)

\* GetInstance: ok is false for "Instance Not Found"
GetInstance(d, id) ==
    IF id \in DOMAIN d.instances THEN [ok |-> TRUE, value |-> d.instances[id]]
    ELSE [ok |-> FALSE, value |-> NilInstance]

\* the reasons of payloads.StartFailureReason that StartFailure leaves alone
RetryReasons == {"LaunchFailure", "AlreadyRunning", "InstanceExists"}

----------------------------------------------------------------------------
(* Reading a tenant.  t and err are what getTenantNoCache of the           *)
(* persistent store returns: a tenant, nil without an error, or nil with   *)
(* an error.                                                               *)

\* mutant: a tenant read from the persistent store is put into the cache
GetTenant_Backfill(d, id, t, err) ==
    IF err # "" \/ IsNilTenant(t) THEN [ds |-> d, tenant |-> NilTenant, err |-> err]
    ELSE [ds |-> [d EXCEPT !.tenants = MapPut(@, id, t)], tenant |-> t, err |-> ""]

\* GetTenant with what getTenant returned after a cache miss: nil with the
\* store's error, which may be nil, when the error or the tenant is nil
GetTenant(d, id, t, err) ==
    IF err # "" \/ IsNilTenant(t) THEN [ds |-> d, tenant |-> NilTenant, err |-> err]
    ELSE [ds |-> d, tenant |-> t, err |-> ""]

----------------------------------------------------------------------------
(* The persistent store behind ds.db.  Its implementation is not part of   *)
(* the package: the tables below are what the interface persistentStore    *)
(* names, an instance table keyed by instance ID, the claimed addresses    *)
(* (claimed[tenant][subnet] is the set of hosts claimed, with no entry for *)
(* an empty set) and the attachment table keyed by attachment ID.  Every   *)
(* call succeeds unless an operation is told otherwise.  The tables of     *)
(* tenants, limits, block devices and statistics are not kept: the calls   *)
(* that write them change none of the variables.                           *)

EmptyStore == [instances |-> {}, claimed |-> EmptyMap, attachments |-> {}]

\* ds.db.addInstance(instance)
dbAddInstance(s, instanceID) == [s EXCEPT !.instances = @ \cup {instanceID}]

\* ds.db.removeInstance(instanceID)
dbRemoveInstance(s, instanceID) == [s EXCEPT !.instances = @ \ {instanceID}]

\* the hosts of a tenant's subnet claimed in the store
dbHosts(s, tenantID, subnetInt) ==
    IF tenantID \in DOMAIN s.claimed /\ subnetInt \in DOMAIN s.claimed[tenantID]
    THEN s.claimed[tenantID][subnetInt] ELSE {}

\* the address table with hosts as the claimed hosts of a tenant's subnet
dbPutHosts(s, tenantID, subnetInt, hosts) ==
    LET old == IF tenantID \in DOMAIN s.claimed THEN s.claimed[tenantID] ELSE EmptyMap
        new == IF hosts = {} THEN MapDel(old, subnetInt) ELSE MapPut(old, subnetInt, hosts)
    IN  [s EXCEPT !.claimed = IF DOMAIN new = {} THEN MapDel(@, tenantID)
                              ELSE MapPut(@, tenantID, new)]

\* ds.db.claimTenantIP(tenantID, subnetInt, rest)
dbClaimTenantIP(s, tenantID, subnetInt, rest) ==
    dbPutHosts(s, tenantID, subnetInt, dbHosts(s, tenantID, subnetInt) \cup {rest})

\* ds.db.releaseTenantIP(tenantID, subnetInt, rest)
dbReleaseTenantIP(s, tenantID, subnetInt, rest) ==
    dbPutHosts(s, tenantID, subnetInt, dbHosts(s, tenantID, subnetInt) \ {rest})

\* ds.db.createStorageAttachment(a)
dbCreateStorageAttachment(s, ID) == [s EXCEPT !.attachments = @ \cup {ID}]

\* ds.db.deleteStorageAttachment(ID)
dbDeleteStorageAttachment(s, ID) == [s EXCEPT !.attachments = @ \ {ID}]

\* one call of the store, as the record call names it
dbApply(s, call) ==
    CASE call.op = "addInstance" -> dbAddInstance(s, call.id)
      [] call.op = "removeInstance" -> dbRemoveInstance(s, call.id)
      [] call.op = "claimTenantIP" -> dbClaimTenantIP(s, call.tenant, call.subnet, call.rest)
      [] call.op = "releaseTenantIP" -> dbReleaseTenantIP(s, call.tenant, call.subnet, call.rest)
      [] call.op = "createStorageAttachment" -> dbCreateStorageAttachment(s, call.id)
      [] call.op = "deleteStorageAttachment" -> dbDeleteStorageAttachment(s, call.id)

\* the addresses claimed in the in-memory tables, as the store keeps them
ClaimedInCache(d) ==
    LET subnetsOf(t) == {k \in DOMAIN d.tenants[t].network : d.tenants[t].network[k].on # {}}
    IN  [t \in {x \in CachedTenants(d) : subnetsOf(x) # {}} |->
            [k \in subnetsOf(t) |-> d.tenants[t].network[k].on]]

\* the store once every write of the cache d has reached it
StoreOf(d) ==
    [instances |-> DOMAIN d.instances, claimed |-> ClaimedInCache(d),
     attachments |-> DOMAIN d.attachments]

----------------------------------------------------------------------------
(* The state after Init on an empty persistent store, and states reached   *)
(* from it by allocations only, used as starting points.                   *)

EmptyDS ==
    [tenants |-> EmptyMap, allSubnets |-> {},
     instances |-> EmptyMap, instanceLastStat |-> EmptyMap,
     nodes |-> EmptyMap,
     blockDevices |-> EmptyMap,
     nodeLastStat |-> EmptyMap, tenantUsage |-> EmptyMap,
     attachments |-> EmptyMap, instanceVolumes |-> EmptyMap,
     cnciAddedChans |-> EmptyMap]

TestMAC == <<2, 3, 0, 0, 0, 1>>

\* the index of the j-th subnet handed out (j from 0)
NthSubnet(j) == BigEndianUint16(SubnetProbeBytes(j))

\* the hosts of a subnet after k allocations
HostsAfter(k) == [on |-> FirstHost..(FirstHost + k - 1), off |-> {}]

\* the datastore after AddTenant(id) and n * 253 + k calls of
\* AllocateTenantIP(id), 0 <= k <= 253 (k = 0 with n > 0: the n-th subnet
\* just became full)
AllocatedDS(id, n, k) ==
    LET count == IF k = 0 THEN n ELSE n + 1
        net == [s \in {NthSubnet(j) : j \in 0..(count - 1)} |->
                    IF s = NthSubnet(n) THEN HostsAfter(k) ELSE HostsAfter(HostsPerSubnet)]
    IN  [EmptyDS EXCEPT
            !.tenants = MapPut(EmptyMap, id,
                [NewTenant(id, TestMAC) EXCEPT
                    !.network = net,
                    !.subnets = [j \in 1..count |-> NthSubnet(j - 1)]]),
            !.allSubnets = {NthSubnet(j) : j \in 0..(count - 1)}]

\* the addresses handed out by those calls
AllocatedHeld(id, n, k) ==
    {<<id, IPString(IPv4(IPPrefix, SubnetProbeBytes(j)[1], SubnetProbeBytes(j)[2], h))>> :
        j \in 0..(n - 1), h \in FirstHost..(FirstHost + HostsPerSubnet - 1)}
    \cup {<<id, IPString(IPv4(IPPrefix, SubnetProbeBytes(n)[1], SubnetProbeBytes(n)[2], h))>> :
        h \in FirstHost..(FirstHost + k - 1)}

\* AllocatedDS(id, n, k) is what one more AllocateTenantIP makes of its
\* predecessor
AllocatedStep(id, n, k) ==
    \/ n = 0 /\ k = 0
    \/ k > 0 /\ AllocateTenantIP(AllocatedDS(id, n, k - 1), id).ds = AllocatedDS(id, n, k)
    \/ k = 0 /\ n > 0
         /\ AllocateTenantIP(AllocatedDS(id, n - 1, HostsPerSubnet - 1), id).ds
                = AllocatedDS(id, n, 0)

\* the goroutines that run calls
Threads == {1, 2}

\* the goroutine of a caller that makes its calls one after the other
Serial == {1}

NoDevice == [ID |-> "", TenantID |-> "", State |-> ""]

\* the statistics of no node
NoStat == [NodeUUID |-> "", Load |-> -1, Instances |-> <<>>]

\* history: the state at the entry of a call, kept in the frame of the
\* goroutine for the properties that compare it with the state at the return
Entered == [ds |-> ds, held |-> held, events |-> events, db |-> db, chans |-> chans]

NotEntered ==
    [ds |-> EmptyDS, held |-> {}, events |-> <<>>, db |-> EmptyStore, chans |-> EmptyMap]

\* the frame of a goroutine that is in no call
Idle ==
    [pc |-> "idle", op |-> "", tenant |-> "", c |-> NilChan, id |-> "",
     instance |-> NilInstance, data |-> NoDevice, ip |-> NilIP, arg |-> NilIP,
     mac |-> "", reason |-> "", stat |-> NoStat, failing |-> {}, k |-> 0, j |-> 0,
     seen |-> {}, a |-> 0, after |-> "", attach |-> FALSE, t |-> NilTenant,
     dbOK |-> TRUE, stored |-> "", entry |-> LogEntry("", "", ""), next |-> "idle",
     at |-> NotEntered, calls |-> <<>>, err |-> ""]

NoCall == [n |-> 0, th |-> 0, op |-> "none"]

InitRest ==
    /\ panicked = FALSE
    /\ ret = NoCall
    /\ prev = NoCall
    /\ thr = [th \in Threads |-> Idle]
    /\ chans = EmptyMap
    /\ locks = EmptyMap
    /\ jobs = <<>>
    /\ uuid = 0
    /\ now = 0
    /\ events = <<>>
    /\ db = StoreOf(ds)

----------------------------------------------------------------------------
(* The calls.  A call runs in a goroutine of Threads, one step per         *)
(* critical section, per synchronous call of a store table that is kept,   *)
(* per event logged and per channel send, so that the steps of concurrent  *)
(* calls interleave.  The action Call... is the entry of a call, with its  *)
(* first section where the comment says so; a call that is one section is  *)
(* the one step Call....  A goroutine keeps the locals of its call in its  *)
(* frame thr[th]; pc names the step it takes next.  The step that returns  *)
(* records the call and its result in ret.  A step that panics ends the    *)
(* call and the process.  What a call starts with go is queued in jobs.    *)

\* the goroutines that are in a call
Busy == {th \in Threads : thr[th].pc # "idle"}

\* a behaviour has MaxOps calls
CanCall == ~panicked /\ ret.n + Cardinality(Busy) < MaxOps

\* goroutine th enters a call.  The goroutines are interchangeable: the
\* call goes to the first idle one.
Enter(th) ==
    /\ CanCall
    /\ thr[th].pc = "idle"
    /\ \A o \in Threads : o < th => thr[o].pc # "idle"

\* the frame of a call just entered
Frame(op) == [Idle EXCEPT !.op = op, !.at = Entered]

\* goroutine th takes the step pc of its call
Step(th, pc) == ~panicked /\ thr[th].pc = pc

\* no call of a goroutine is in progress
NoCallInProgress == \A th \in Threads : thr[th].pc = "idle"

\* the addresses an AllocateTenantIP handed out that a completed
\* ReleaseTenantIP(tenantID, ip) gives back: the release reads octets 2..4
\* of the parsed address
Released(tenantID, ip) ==
    {e \in held : /\ e[1] = tenantID
                  /\ To4(ParseIP(ip)) # NilIP
                  /\ SubSeq(e[2], 2, 4) = SubSeq(To4(ParseIP(ip)), 2, 4)}

\* the usage counters of a tenant, <<>> for a tenant that is not cached
ResourcesOf(d, tenantID) ==
    IF TenantCached(d, tenantID) THEN d.tenants[tenantID].Resources ELSE <<>>

\* history: the call of the frame f and its result, as ret records them
Result(f) ==
    CASE f.op = "AddTenant" ->
            [op |-> f.op, tenant |-> f.tenant, dbOK |-> f.dbOK, err |-> f.err]
      [] f.op = "GetTenant" ->
            [op |-> f.op, tenant |-> f.tenant, found |-> ~IsNilTenant(f.t),
             ID |-> IF IsNilTenant(f.t) THEN "" ELSE f.t.ID,
             dbRead |-> f.stored # "", stored |-> f.stored, err |-> f.err]
      [] f.op = "ReleaseTenantIP" ->
            [op |-> f.op, tenant |-> f.tenant, ip |-> f.arg,
             wasHeld |-> <<f.tenant, IPString(ParseIP(f.arg))>> \in f.at.held,
             err |-> f.err, calls |-> f.calls]
      [] f.op \in {"AddInstance", "Launch"} ->
            [op |-> f.op, id |-> f.id, tenant |-> f.tenant,
             node |-> IF IsNilInstance(f.instance) THEN "" ELSE f.instance.NodeID,
             ip |-> IF IsNilInstance(f.instance) THEN NilIP ELSE f.instance.IPAddress,
             before |-> ResourcesOf(f.at.ds, f.tenant), err |-> f.err, calls |-> <<>>]
      [] f.op = "DeleteInstance" ->
            [op |-> f.op, id |-> f.id,
             tenant |-> IF IsNilInstance(f.instance) THEN "" ELSE f.instance.TenantID,
             ip |-> IF IsNilInstance(f.instance) THEN NilIP ELSE f.instance.IPAddress,
             err |-> f.err, calls |-> f.calls]
      [] f.op = "HandleStats" ->
            [op |-> f.op, node |-> f.stat.NodeUUID, load |-> f.stat.Load,
             stats |-> f.stat.Instances, failing |-> f.failing, err |-> "",
             calls |-> f.calls]
      [] f.op = "DeleteNode" -> [op |-> f.op, node |-> f.id, err |-> ""]
      [] f.op \in {"AddBlockDevice", "UpdateBlockDevice"} ->
            [op |-> f.op, volume |-> f.data.ID, err |-> f.err]
      [] f.op = "StartFailure" ->
            [op |-> f.op, id |-> f.id, reason |-> f.reason, err |-> f.err]
      [] f.op \in {"RestartFailure", "StopFailure"} ->
            [op |-> f.op, id |-> f.id, err |-> f.err]
      [] f.op \in {"AttachVolumeFailure", "DetachVolumeFailure"} ->
            [op |-> f.op, id |-> f.id, volume |-> f.data.ID, err |-> ""]
      [] f.op = "AddCNCIIP" -> [op |-> f.op, mac |-> f.mac, err |-> f.err]
      [] f.op = "createStorageAttachment" ->
            [op |-> f.op, id |-> f.a, instance |-> f.id, volume |-> f.data.ID,
             err |-> f.err]
      [] f.op = "deleteStorageAttachment" -> [op |-> f.op, id |-> f.a, err |-> f.err]

\* the call of goroutine th ends with the result r
Record(th, r) ==
    /\ prev' = ret
    /\ ret' = [n |-> ret.n + 1, th |-> th] @@ r

\* the call of goroutine th returns
Return(th, r) ==
    /\ thr' = [thr EXCEPT ![th] = Idle]
    /\ Record(th, r)

\* goroutine th goes on with the frame f; the call returns when f has no
\* step left, and ends where it panics
Goto(th, f, panic) ==
    IF panic \/ f.pc = "idle" THEN Return(th, Result(f))
    ELSE thr' = [thr EXCEPT ![th] = f] /\ UNCHANGED <<ret, prev>>

\* ds.db.logEvent(...), and the return when nothing follows
StepLogEvent(th) ==
    /\ Step(th, "log")
    /\ events' = Append(events, thr[th].entry)
    /\ Goto(th, [thr[th] EXCEPT !.pc = thr[th].next], FALSE)
    /\ UNCHANGED <<ds, panicked, held, chans, locks, jobs, uuid, now, db>>

\* AddTenant: ds.db.addTenant (the tenant table is not kept), then
\* getTenant's section under tenantsLock.RLock
CallAddTenant(th, id, dbOK) ==
    /\ Enter(th)
    /\ Goto(th, [Frame("AddTenant") EXCEPT
                    !.pc = IF TenantCached(ds, id) THEN "tenant-cache" ELSE "tenant-read",
                    !.tenant = id, !.t = GetTenantCache(ds, id), !.dbOK = dbOK], FALSE)
    /\ UNCHANGED <<ds, panicked, held, chans, locks, jobs, uuid, now, events, db>>

\* the answers of ds.db.getTenantNoCache: a tenant, nil without an error,
\* nil with an error
StoreAnswers == {"tenant", "nil", "error"}

\* GetTenant: getTenant's section under tenantsLock.RLock; a cached tenant
\* is returned
CallGetTenant(th, id, stored) ==
    /\ Enter(th)
    /\ Goto(th, IF TenantCached(ds, id)
                THEN [Frame("GetTenant") EXCEPT !.tenant = id, !.t = ds.tenants[id]]
                ELSE [Frame("GetTenant") EXCEPT !.pc = "tenant-read", !.tenant = id,
                                                !.stored = stored], FALSE)
    /\ UNCHANGED <<ds, panicked, held, chans, locks, jobs, uuid, now, events, db>>

\* getTenant, after a miss: return ds.db.getTenantNoCache(id).  The store
\* returns a new tenant object with what it holds now, or nil.  AddTenant
\* goes on to its section; GetTenant returns nil with the store's error
\* when the error or the tenant is nil.
StepGetTenantNoCache(th) ==
    /\ Step(th, "tenant-read")
    /\ LET f == thr[th]
           answer == IF f.op = "GetTenant" THEN f.stored
                     ELSE IF f.dbOK THEN "tenant" ELSE "error"
           t == IF answer = "tenant"
                THEN [GetTenantNoCache(db, f.tenant, NewHardwareAddr(TestMAC))
                         EXCEPT !.ptr = th]
                ELSE NilTenant
           err == IF answer = "error" THEN "db" ELSE ""
           r == GetTenant(ds, f.tenant, t, err) IN
        IF f.op = "GetTenant"
        THEN /\ ds' = r.ds
             /\ Goto(th, [f EXCEPT !.pc = "idle", !.t = r.tenant, !.err = r.err], FALSE)
        ELSE /\ ds' = ds
             /\ Goto(th, [f EXCEPT !.pc = "tenant-cache", !.t = t, !.err = err], FALSE)
    /\ UNCHANGED <<panicked, held, chans, locks, jobs, uuid, now, events, db>>

\* the tenant object t as it is now: the cached one when t points to it
Deref(d, id, t) ==
    IF ~IsNilTenant(t) /\ TenantCached(d, id) /\ d.tenants[id].ptr = t.ptr
    THEN d.tenants[id] ELSE t

\* AddTenant: ds.tenants[id] = t under tenantsLock.Lock, and the return.
\* A tenant object that leaves the cache stays as it is in the frames that
\* point to it.
StepAddTenantCache(th) ==
    /\ Step(th, "tenant-cache")
    /\ LET id == thr[th].tenant
           r == AddTenantCache(ds, id, Deref(ds, id, thr[th].t)) IN
        /\ ds' = r.ds
        /\ panicked' = r.panic
        /\ thr' = [o \in Threads |->
                      IF o = th THEN Idle
                      ELSE IF thr[o].pc = "tenant-cache" /\ thr[o].tenant = id
                      THEN [thr[o] EXCEPT !.t = Deref(ds, id, @)]
                      ELSE thr[o]]
        /\ Record(th, Result([thr[th] EXCEPT !.err = IF r.panic THEN "" ELSE @]))
    /\ UNCHANGED <<held, chans, locks, jobs, uuid, now, events, db>>

\* AllocateTenantIP: the one section under tenantsLock, and
\* go ds.db.claimTenantIP
CallAllocateTenantIP(th, tenantID) ==
    /\ Enter(th)
    /\ LET r == AllocateTenantIP(ds, tenantID) IN
        /\ ds' = r.ds
        /\ panicked' = r.panic
        /\ held' = IF ~r.panic /\ r.err = "" THEN held \cup {<<tenantID, IPString(r.ip)>>}
                   ELSE held
        /\ jobs' = jobs \o r.jobs
        /\ Record(th, [op |-> "AllocateTenantIP", tenant |-> tenantID,
                       ip |-> IPString(r.ip), err |-> r.err, calls |-> <<>>])
    /\ UNCHANGED <<thr, chans, locks, uuid, now, events, db>>

\* where a goroutine goes when its ReleaseTenantIP is over: DeleteInstance
\* logs its event after a release without error, StartFailure logs its
\* event whatever deleteInstance returned
AfterRelease(f, err) ==
    CASE f.op = "DeleteInstance" ->
            IF err = "" THEN [f EXCEPT !.pc = "log"] ELSE [f EXCEPT !.pc = "idle", !.err = err]
      [] f.op = "StartFailure" -> [f EXCEPT !.pc = "log"]
      [] OTHER -> [f EXCEPT !.pc = "idle", !.err = err]

\* mutant: the address is not given back
Releasing_NoRelease(f, tenantID, ip) ==
    AfterRelease([f EXCEPT !.tenant = tenantID, !.arg = ip], "")

\* ReleaseTenantIP entered from the frame f: the address is parsed; one
\* that does not parse ends ReleaseTenantIP with an error, before any
\* section
Releasing(f, tenantID, ip) ==
    LET g == [f EXCEPT !.tenant = tenantID, !.arg = ip] IN
    IF ParseIP(ip) = NilIP THEN AfterRelease(g, "Invalid IPv4 Address")
    ELSE IF To4(ParseIP(ip)) = NilIP THEN AfterRelease(g, "Unable to convert ip to bytes")
    ELSE [g EXCEPT !.pc = "release", !.ip = To4(ParseIP(ip))]

CallReleaseTenantIP(th, tenantID, ip) ==
    /\ Enter(th)
    /\ Goto(th, Releasing(Frame("ReleaseTenantIP"), tenantID, ip), FALSE)
    /\ UNCHANGED <<ds, panicked, held, chans, locks, jobs, uuid, now, events, db>>

\* ReleaseTenantIP: the section under tenantsLock
StepReleaseTenantIPCache(th) ==
    /\ Step(th, "release")
    /\ LET ip == thr[th].ip
           r == ReleaseTenantIPCache(ds, thr[th].tenant,
                                     BigEndianUint16(<<ip[2], ip[3]>>), ip[4]) IN
        /\ ds' = r.ds
        /\ panicked' = r.panic
        /\ held' = IF r.panic THEN held ELSE held \ Released(thr[th].tenant, ip)
        /\ Goto(th, [thr[th] EXCEPT !.pc = "release-store"], r.panic)
    /\ UNCHANGED <<chans, locks, jobs, uuid, now, events, db>>

\* ReleaseTenantIP: ds.db.releaseTenantIP and the return
StepReleaseTenantIPStore(th) ==
    /\ Step(th, "release-store")
    /\ LET ip == thr[th].ip
           call == [op |-> "releaseTenantIP", tenant |-> thr[th].tenant,
                    subnet |-> BigEndianUint16(<<ip[2], ip[3]>>), rest |-> ip[4]] IN
        /\ db' = dbApply(db, call)
        /\ Goto(th, AfterRelease([thr[th] EXCEPT !.calls = Append(@, call)], ""), FALSE)
    /\ UNCHANGED <<ds, panicked, held, chans, locks, jobs, uuid, now, events>>

CallAddInstance(th, instance) ==
    /\ Enter(th)
    /\ Goto(th, [Frame("AddInstance") EXCEPT !.pc = "add-cache", !.id = instance.ID,
                                             !.tenant = instance.TenantID,
                                             !.instance = instance], FALSE)
    /\ UNCHANGED <<ds, panicked, held, chans, locks, jobs, uuid, now, events, db>>

\* AddInstance: the section under instancesLock
StepAddInstanceCache(th) ==
    /\ Step(th, "add-cache")
    /\ ds' = AddInstanceCache(ds, thr[th].instance)
    /\ Goto(th, [thr[th] EXCEPT !.pc = "add-tenant"], FALSE)
    /\ UNCHANGED <<panicked, held, chans, locks, jobs, uuid, now, events, db>>

\* AddInstance: the section under tenantsLock, go ds.db.addInstance(instance)
\* and the return
StepAddInstanceTenant(th) ==
    /\ Step(th, "add-tenant")
    /\ ds' = AddInstanceTenant(ds, thr[th].instance)
    /\ jobs' = Append(jobs, [op |-> "addInstance", id |-> thr[th].id])
    /\ Goto(th, [thr[th] EXCEPT !.pc = "idle"], FALSE)
    /\ UNCHANGED <<panicked, held, chans, locks, uuid, now, events, db>>

\* DeleteInstance enters deleteInstance; the event it logs after a
\* deleteInstance without error is kept in the frame
CallDeleteInstance(th, instanceID) ==
    /\ Enter(th)
    /\ Goto(th, [Frame("DeleteInstance") EXCEPT
                    !.pc = "del-laststat", !.id = instanceID,
                    !.entry = LogEntry(instanceID, userInfo, "Deleted Instance")], FALSE)
    /\ UNCHANGED <<ds, panicked, held, chans, locks, jobs, uuid, now, events, db>>

\* deleteInstance: the section under instanceLastStatLock
StepDeleteInstanceLastStat(th) ==
    /\ Step(th, "del-laststat")
    /\ ds' = DeleteInstanceLastStat(ds, thr[th].id)
    /\ Goto(th, [thr[th] EXCEPT !.pc = "del-cache"], FALSE)
    /\ UNCHANGED <<panicked, held, chans, locks, jobs, uuid, now, events, db>>

\* deleteInstance: the section under instancesLock
StepDeleteInstanceCache(th) ==
    /\ Step(th, "del-cache")
    /\ ds' = DeleteInstanceCache(ds, thr[th].id)
    /\ Goto(th, [thr[th] EXCEPT !.pc = "del-tenant",
                                !.instance = LookupInstance(ds, thr[th].id)], FALSE)
    /\ UNCHANGED <<panicked, held, chans, locks, jobs, uuid, now, events, db>>

\* deleteInstance: the section under tenantsLock; the section under
\* nodesLock follows for an instance that names a node
StepDeleteInstanceTenant(th) ==
    /\ Step(th, "del-tenant")
    /\ LET r == DeleteInstanceTenant(ds, thr[th].instance, thr[th].id) IN
        /\ ds' = r.ds
        /\ panicked' = r.panic
        /\ Goto(th, [thr[th] EXCEPT !.pc = IF ~r.panic /\ thr[th].instance.NodeID = ""
                                           THEN "del-store" ELSE "del-node"], r.panic)
    /\ UNCHANGED <<held, chans, locks, jobs, uuid, now, events, db>>

\* deleteInstance: the section under nodesLock
StepDeleteInstanceNode(th) ==
    /\ Step(th, "del-node")
    /\ LET r == DeleteInstanceNode(ds, thr[th].instance, thr[th].id) IN
        /\ ds' = r.ds
        /\ panicked' = r.panic
        /\ Goto(th, [thr[th] EXCEPT !.pc = "del-store"], r.panic)
    /\ UNCHANGED <<held, chans, locks, jobs, uuid, now, events, db>>

\* deleteInstance: ds.db.removeInstance(i.ID), then ReleaseTenantIP is
\* entered
StepRemoveInstance(th) ==
    /\ Step(th, "del-store")
    /\ LET i == thr[th].instance
           call == [op |-> "removeInstance", id |-> i.ID] IN
        /\ db' = dbApply(db, call)
        /\ Goto(th, Releasing([thr[th] EXCEPT !.calls = Append(@, call)],
                              i.TenantID, i.IPAddress), FALSE)
    /\ UNCHANGED <<ds, panicked, held, chans, locks, jobs, uuid, now, events>>

\* HandleStats: what follows the node part or the statistic before the
\* k-th; ds.db.addNodeStatDB and ds.db.addInstanceStatsDB write no table kept
NextStat(f, k) ==
    IF k > Len(f.stat.Instances) THEN [f EXCEPT !.pc = "idle"]
    ELSE [f EXCEPT !.pc = "stat-last", !.k = k]

\* HandleStats: addNodeStat's section under nodesLock, or with a load of
\* -1 the first statistic
CallHandleStats(th, stat, failing) ==
    /\ Enter(th)
    /\ LET f == [Frame("HandleStats") EXCEPT !.stat = stat, !.failing = failing] IN
        IF stat.Load # -1
        THEN /\ ds' = AddNodeStatNode(ds, stat)
             /\ Goto(th, [f EXCEPT !.pc = "stat-nodelast"], FALSE)
        ELSE /\ UNCHANGED ds
             /\ Goto(th, NextStat(f, 1), FALSE)
    /\ UNCHANGED <<panicked, held, chans, locks, jobs, uuid, now, events, db>>

\* addNodeStat: the section under nodeLastStatLock
StepNodeLastStat(th) ==
    /\ Step(th, "stat-nodelast")
    /\ ds' = AddNodeStatLast(ds, thr[th].stat)
    /\ Goto(th, NextStat(thr[th], 1), FALSE)
    /\ UNCHANGED <<panicked, held, chans, locks, jobs, uuid, now, events, db>>

\* addInstanceStats: the section under instanceLastStatLock, which starts
\* go ds.updateTenantUsage
StepInstanceLastStat(th) ==
    /\ Step(th, "stat-last")
    /\ LET r == AddInstanceLastStat(ds, thr[th].stat.NodeUUID,
                                    thr[th].stat.Instances[thr[th].k]) IN
        /\ ds' = r.ds
        /\ jobs' = Append(jobs, r.job)
    /\ Goto(th, [thr[th] EXCEPT !.pc = "stat-inst"], FALSE)
    /\ UNCHANGED <<panicked, held, chans, locks, uuid, now, events, db>>

\* addInstanceStats: the section under instancesLock
StepInstanceNode(th) ==
    /\ Step(th, "stat-inst")
    /\ LET r == AddInstanceNode(ds, thr[th].stat.NodeUUID,
                                thr[th].stat.Instances[thr[th].k]) IN
        /\ ds' = r.ds
        /\ panicked' = r.panic
        /\ Goto(th, [thr[th] EXCEPT !.pc = "stat-attach"], r.panic)
    /\ UNCHANGED <<held, chans, locks, jobs, uuid, now, events, db>>

\* no other goroutine holds attachLock
AttachLockFree(th) == \A o \in Threads \ {th} : ~thr[o].attach

\* the statistic of the instance a HandleStats is at
StatOf(f) == f.stat.Instances[f.k]

\* updateStorageAttachments, second loop: the keys of ds.instanceVolumes
\* not visited yet whose volume is not in the list
StaleKeys(d, f) ==
    {key \in DOMAIN d.instanceVolumes \ f.seen :
        \A q \in 1..Len(StatOf(f).Volumes) :
            StatOf(f).Volumes[q] # AttachmentAt(d, d.instanceVolumes[key]).BlockID}

\* updateStorageAttachments, the second loop goes on: to a key left, or to
\* ds.attachLock.Unlock() and the statistic after this one
NextStale(d, f) ==
    IF StaleKeys(d, f) # {} THEN [f EXCEPT !.pc = "att-stale"]
    ELSE NextStat([f EXCEPT !.attach = FALSE], f.k + 1)

\* updateStorageAttachments, the first loop from the j-th volume on: to the
\* first volume without an attachment, or to the second loop
NextVolume(d, f, j) ==
    LET volumes == StatOf(f).Volumes
        new == {q \in j..Len(volumes) :
                   <<StatOf(f).InstanceUUID, volumes[q]>> \notin DOMAIN d.instanceVolumes}
    IN  IF new = {} THEN NextStale(d, [f EXCEPT !.seen = {}])
        ELSE [f EXCEPT !.pc = "att-new", !.j = CHOOSE q \in new : \A o \in new : q <= o]

\* updateStorageAttachments: ds.attachLock.Lock(), held until the loops
\* are over
StepAttachLock(th) ==
    /\ Step(th, "stat-attach")
    /\ AttachLockFree(th)
    /\ Goto(th, NextVolume(ds, [thr[th] EXCEPT !.attach = TRUE], 1), FALSE)
    /\ UNCHANGED <<ds, panicked, held, chans, locks, jobs, uuid, now, events, db>>

\* updateStorageAttachments, first loop: the attachment of a volume that
\* has none is added to ds.attachments and ds.instanceVolumes
StepAttachNew(th) ==
    /\ Step(th, "att-new")
    /\ LET f == thr[th]
           r == CreateStorageAttachment(ds, uuid, StatOf(f).InstanceUUID,
                                        StatOf(f).Volumes[f.j], TRUE) IN
        /\ ds' = r.ds
        /\ uuid' = r.uuid
        /\ Goto(th, [f EXCEPT !.pc = "att-store", !.a = r.a.ID], FALSE)
    /\ UNCHANGED <<panicked, held, chans, locks, jobs, now, events, db>>

\* updateStorageAttachments, first loop: err := ds.db.createStorageAttachment(a);
\* the loop goes on to the next volume when the store fails
StepAttachStore(th) ==
    /\ Step(th, "att-store")
    /\ LET f == thr[th]
           call == [op |-> "createStorageAttachment", id |-> f.a] IN
        IF StatOf(f).Volumes[f.j] \in f.failing
        THEN /\ UNCHANGED db
             /\ Goto(th, NextVolume(ds, f, f.j + 1), FALSE)
        ELSE /\ db' = dbApply(db, call)
             /\ Goto(th, [f EXCEPT !.pc = "att-get", !.calls = Append(@, call)], FALSE)
    /\ UNCHANGED <<ds, panicked, held, chans, locks, jobs, uuid, now, events>>

\* updateStorageAttachments, first loop: bd, err := ds.GetBlockDevice(v);
\* bd.State = types.InUse
StepAttachGet(th) ==
    /\ Step(th, "att-get")
    /\ LET f == thr[th]
           r == GetBlockDevice(ds, StatOf(f).Volumes[f.j]) IN
        Goto(th, IF r.ok
                 THEN [f EXCEPT !.pc = "check", !.after = "att-new",
                                !.data = [r.data EXCEPT !.State = InUse]]
                 ELSE NextVolume(ds, f, f.j + 1), FALSE)
    /\ UNCHANGED <<ds, panicked, held, chans, locks, jobs, uuid, now, events, db>>

\* updateStorageAttachments, second loop: a key of ds.instanceVolumes whose
\* volume is not in the list, in any order; bd, err := ds.GetBlockDevice(a.BlockID);
\* bd.State = types.Available.  The loop goes on to the next key when the
\* device is not found.
StepAttachStale(th) ==
    /\ Step(th, "att-stale")
    /\ LET f == thr[th] IN
        \E key \in StaleKeys(ds, f) :
            LET ID == ds.instanceVolumes[key]
                r == GetBlockDevice(ds, AttachmentAt(ds, ID).BlockID) IN
            Goto(th, IF r.ok
                     THEN [f EXCEPT !.pc = "check", !.after = "att-del", !.a = ID,
                                    !.data = [r.data EXCEPT !.State = Available]]
                     ELSE NextStale(ds, [f EXCEPT !.seen = @ \cup {key}]), FALSE)
    /\ UNCHANGED <<ds, panicked, held, chans, locks, jobs, uuid, now, events, db>>

\* updateStorageAttachments, second loop: delete(ds.attachments, ID);
\* delete(ds.instanceVolumes, key)
StepAttachDelete(th) ==
    /\ Step(th, "att-del")
    /\ LET f == thr[th]
           a == AttachmentAt(ds, f.a)
           d1 == [ds EXCEPT !.attachments = MapDel(@, f.a),
                            !.instanceVolumes = MapDel(@, <<a.InstanceID, a.BlockID>>)] IN
        /\ ds' = d1
        /\ Goto(th, NextStale(d1, f), FALSE)
    /\ UNCHANGED <<panicked, held, chans, locks, jobs, uuid, now, events, db>>

\* DeleteNode: the section under nodesLock
CallDeleteNode(th, nodeID) ==
    /\ Enter(th)
    /\ ds' = DeleteNodeNode(ds, nodeID)
    /\ Goto(th, [Frame("DeleteNode") EXCEPT !.pc = "node-last", !.id = nodeID], FALSE)
    /\ UNCHANGED <<panicked, held, chans, locks, jobs, uuid, now, events, db>>

\* DeleteNode: the section under nodeLastStatLock
StepDeleteNodeLast(th) ==
    /\ Step(th, "node-last")
    /\ ds' = DeleteNodeLast(ds, thr[th].id)
    /\ Goto(th, [thr[th] EXCEPT !.pc = "idle"], FALSE)
    /\ UNCHANGED <<panicked, held, chans, locks, jobs, uuid, now, events, db>>

\* mutant: both volume failure handlers write in-use
FailureState_InUse(op) == InUse

\* the state a volume failure handler writes
FailureState(op) == IF op = "AttachVolumeFailure" THEN Available ELSE InUse

VolumeFailureOps == {"AttachVolumeFailure", "DetachVolumeFailure"}

\* the text of the event a failure handler logs
FailureText(op) ==
    CASE op = "AttachVolumeFailure" -> "Attach Volume Failure"
      [] op = "DetachVolumeFailure" -> "Detach Volume Failure"
      [] op = "RestartFailure" -> "Restart Failure"
      [] op = "StopFailure" -> "Stop Failure"
      [] op = "StartFailure" -> "Start Failure"

CallAddBlockDevice(th, device) ==
    /\ Enter(th)
    /\ Goto(th, [Frame("AddBlockDevice") EXCEPT !.pc = "bd", !.data = device], FALSE)
    /\ UNCHANGED <<ds, panicked, held, chans, locks, jobs, uuid, now, events, db>>

CallUpdateBlockDevice(th, data) ==
    /\ Enter(th)
    /\ Goto(th, [Frame("UpdateBlockDevice") EXCEPT !.pc = "check", !.data = data], FALSE)
    /\ UNCHANGED <<ds, panicked, held, chans, locks, jobs, uuid, now, events, db>>

\* DeleteBlockDevice: the one section under bdLock and tenantsLock; the
\* block data it deletes with go ds.db.deleteBlockData is in no table kept
CallDeleteBlockDevice(th, ID) ==
    /\ Enter(th)
    /\ LET r == DeleteBlockDevice(ds, ID) IN
        /\ ds' = r.ds
        /\ panicked' = r.panic
        /\ Record(th, [op |-> "DeleteBlockDevice", volume |-> ID, err |-> r.err])
    /\ UNCHANGED <<held, thr, chans, locks, jobs, uuid, now, events, db>>

\* GetBlockDevice: the one section under bdLock.RLock
CallGetBlockDevice(th, ID) ==
    /\ Enter(th)
    /\ LET r == GetBlockDevice(ds, ID) IN
        Record(th, [op |-> "GetBlockDevice", volume |-> ID, data |-> r.data,
                    err |-> IF r.ok THEN "" ELSE ErrNoBlockData])
    /\ UNCHANGED <<ds, panicked, held, thr, chans, locks, jobs, uuid, now, events, db>>

\* GetBlockDevices: the one section under tenantsLock.RLock
CallGetBlockDevices(th, tenant) ==
    /\ Enter(th)
    /\ LET r == GetBlockDevices(ds, tenant) IN
        /\ panicked' = r.panic
        /\ Record(th, [op |-> "GetBlockDevices", tenant |-> tenant,
                       devices |-> r.devices, err |-> r.err])
    /\ UNCHANGED <<ds, held, thr, chans, locks, jobs, uuid, now, events, db>>

CallVolumeFailure(th, op, instanceID, volumeID) ==
    /\ Enter(th)
    /\ Goto(th, [Frame(op) EXCEPT !.pc = "get", !.id = instanceID,
                                  !.data = [NoDevice EXCEPT !.ID = volumeID]], FALSE)
    /\ UNCHANGED <<ds, panicked, held, chans, locks, jobs, uuid, now, events, db>>

\* the volume failure handlers: data, err := ds.GetBlockDevice(volumeID);
\* data.State = ...
StepGetBlockDevice(th) ==
    /\ Step(th, "get")
    /\ LET r == GetBlockDevice(ds, thr[th].data.ID) IN
        Goto(th, IF r.ok
                 THEN [thr[th] EXCEPT !.pc = "check",
                                      !.data = [r.data EXCEPT !.State = FailureState(thr[th].op)]]
                 ELSE [thr[th] EXCEPT !.pc = "owner"], FALSE)
    /\ UNCHANGED <<ds, panicked, held, chans, locks, jobs, uuid, now, events, db>>

\* where a goroutine goes when its UpdateBlockDevice or AddBlockDevice is
\* over: a volume failure handler to GetInstance, updateStorageAttachments
\* to the next volume of the first loop or to the deletion of the second,
\* a call of its own to the return
AfterUpdate(d, f, err) ==
    IF f.op \in VolumeFailureOps THEN [f EXCEPT !.pc = "owner"]
    ELSE IF f.op = "HandleStats"
    THEN IF f.after = "att-new" THEN NextVolume(d, f, f.j + 1)
         ELSE [f EXCEPT !.pc = "att-del"]
    ELSE [f EXCEPT !.pc = "idle", !.err = err]

\* UpdateBlockDevice: _, ok := ds.blockDevices[data.ID] under RLock
StepCheckBlockDevice(th) ==
    /\ Step(th, "check")
    /\ Goto(th, IF thr[th].data.ID \in DOMAIN ds.blockDevices
                THEN [thr[th] EXCEPT !.pc = "bd"]
                ELSE AfterUpdate(ds, thr[th], ErrNoBlockData), FALSE)
    /\ UNCHANGED <<ds, panicked, held, chans, locks, jobs, uuid, now, events, db>>

\* AddBlockDevice: the section under bdLock
StepAddBlockDeviceGlobal(th) ==
    /\ Step(th, "bd")
    /\ ds' = AddBlockDeviceGlobal(ds, thr[th].data)
    /\ Goto(th, [thr[th] EXCEPT !.pc = "tenants"], FALSE)
    /\ UNCHANGED <<panicked, held, chans, locks, jobs, uuid, now, events, db>>

\* AddBlockDevice: the section under tenantsLock; the block data it stores
\* with go ds.db.createBlockData or updateBlockData is in no table kept
StepAddBlockDeviceTenant(th) ==
    /\ Step(th, "tenants")
    /\ LET r == AddBlockDeviceTenant(ds, thr[th].data) IN
        /\ ds' = r.ds
        /\ panicked' = r.panic
        /\ Goto(th, AfterUpdate(r.ds, thr[th], ""), r.panic)
    /\ UNCHANGED <<held, chans, locks, jobs, uuid, now, events, db>>

\* RestartFailure and StopFailure: GetInstance, the section under
\* instancesLock.RLock; an instance not found ends the call
CallInstanceFailure(th, op, instanceID) ==
    /\ Enter(th)
    /\ LET i == GetInstance(ds, instanceID)
           f == [Frame(op) EXCEPT !.id = instanceID] IN
        Goto(th, IF ~i.ok THEN [f EXCEPT !.err = "Instance Not Found"]
                 ELSE [f EXCEPT !.pc = "log",
                                !.entry = LogEntry(i.value.TenantID, userError,
                                                   FailureText(op))], FALSE)
    /\ UNCHANGED <<ds, panicked, held, chans, locks, jobs, uuid, now, events, db>>

\* the volume failure handlers: i, err := ds.GetInstance(instanceID)
StepGetOwner(th) ==
    /\ Step(th, "owner")
    /\ LET i == GetInstance(ds, thr[th].id) IN
        Goto(th, IF ~i.ok THEN [thr[th] EXCEPT !.pc = "idle"]
                 ELSE [thr[th] EXCEPT !.pc = "log",
                                      !.entry = LogEntry(i.value.TenantID, userError,
                                                         FailureText(thr[th].op))], FALSE)
    /\ UNCHANGED <<ds, panicked, held, chans, locks, jobs, uuid, now, events, db>>

\* AddTenantChan(c, tenantID) with a channel just made, or nil: the one
\* section under cnciAddedLock
CallAddTenantChan(th, tenantID, isNil) ==
    /\ Enter(th)
    /\ LET c == IF isNil THEN NilChan ELSE Cardinality(DOMAIN chans) + 1 IN
        /\ ds' = AddTenantChan(ds, c, tenantID)
        /\ chans' = IF isNil THEN chans
                    ELSE MapPut(chans, c, [tenant |-> tenantID, popped |-> FALSE,
                                           sent |-> <<>>])
        /\ Record(th, [op |-> "AddTenantChan", tenant |-> tenantID, c |-> c, err |-> ""])
    /\ UNCHANGED <<panicked, held, thr, locks, jobs, uuid, now, events, db>>

\* AddTenantCNCI: the one section under tenantsLock; ds.db.updateTenant
\* writes no table kept
CallAddTenantCNCI(th, tenantID, instanceID, mac) ==
    /\ Enter(th)
    /\ LET r == AddTenantCNCI(ds, tenantID, instanceID, mac) IN
        /\ ds' = r.ds
        /\ panicked' = r.panic
        /\ Record(th, [op |-> "AddTenantCNCI", tenant |-> tenantID, err |-> r.err])
    /\ UNCHANGED <<held, thr, chans, locks, jobs, uuid, now, events, db>>

\* AddCNCIIP: the section under tenantsLock
CallAddCNCIIP(th, cnciMAC, ip) ==
    /\ Enter(th)
    /\ \E o \in AddCNCIIPTenant(ds, cnciMAC, ip) :
        /\ ds' = o.ds
        /\ panicked' = o.panic
        /\ Goto(th, [Frame("AddCNCIIP") EXCEPT
                        !.pc = IF o.err # "" THEN "idle" ELSE "pop",
                        !.mac = cnciMAC, !.tenant = o.tenant, !.err = o.err], o.panic)
    /\ UNCHANGED <<held, chans, locks, jobs, uuid, now, events, db>>

\* StartFailure: the section under tenantsLock.RLock
CallStartFailure(th, instanceID, reason) ==
    /\ Enter(th)
    /\ \E o \in StartFailureTenant(ds, instanceID) :
        /\ panicked' = o.panic
        /\ Goto(th, [Frame("StartFailure") EXCEPT
                        !.pc = IF o.cnci THEN "remove" ELSE "instance",
                        !.tenant = o.tenant, !.id = instanceID, !.reason = reason],
                o.panic)
    /\ UNCHANGED <<ds, held, chans, locks, jobs, uuid, now, events, db>>

\* StartFailure of a CNCI: removeTenantCNCI, the section under tenantsLock;
\* its error is the one StartFailure returns after the event and the send
StepRemoveTenantCNCI(th) ==
    /\ Step(th, "remove")
    /\ LET r == RemoveTenantCNCI(ds, thr[th].tenant) IN
        /\ ds' = r.ds
        /\ panicked' = r.panic
        /\ Goto(th, [thr[th] EXCEPT
                        !.pc = "log", !.next = "pop", !.err = r.err,
                        !.entry = LogEntry(thr[th].tenant, userError, "CNCI Start Failure")],
                r.panic)
    /\ UNCHANGED <<held, chans, locks, jobs, uuid, now, events, db>>

\* StartFailure of another instance: GetInstance; deleteInstance for a
\* deleting reason; the event is logged whatever deleteInstance returns
StepStartFailureInstance(th) ==
    /\ Step(th, "instance")
    /\ LET i == GetInstance(ds, thr[th].id) IN
        Goto(th, IF ~i.ok THEN [thr[th] EXCEPT !.pc = "idle", !.err = "Instance Not Found"]
                 ELSE [thr[th] EXCEPT
                          !.pc = IF thr[th].reason \in DeletingReasons
                                 THEN "del-laststat" ELSE "log",
                          !.entry = LogEntry(i.value.TenantID, userError,
                                             FailureText("StartFailure"))], FALSE)
    /\ UNCHANGED <<ds, panicked, held, chans, locks, jobs, uuid, now, events, db>>

\* AddCNCIIP and StartFailure: the section under cnciAddedLock
StepPopChan(th) ==
    /\ Step(th, "pop")
    /\ LET r == PopChan(ds, thr[th].tenant) IN
        /\ ds' = r.ds
        /\ Goto(th, [thr[th] EXCEPT !.pc = "send", !.c = r.c], FALSE)
        /\ chans' = IF r.c \in DOMAIN chans
                    THEN [chans EXCEPT ![r.c].popped = TRUE] ELSE chans
    /\ UNCHANGED <<panicked, held, locks, jobs, uuid, now, events, db>>

\* AddCNCIIP: c <- true; StartFailure: c <- false; and the return
StepSend(th) ==
    /\ Step(th, "send")
    /\ chans' = IF thr[th].c # NilChan
                THEN [chans EXCEPT ![thr[th].c].sent =
                         Append(@, [val |-> thr[th].op = "AddCNCIIP", op |-> thr[th].op])]
                ELSE chans
    /\ Goto(th, [thr[th] EXCEPT !.pc = "idle"], FALSE)
    /\ UNCHANGED <<ds, panicked, held, locks, jobs, uuid, now, events, db>>

\* createStorageAttachment: the section under attachLock
CallCreateStorageAttachment(th, instanceID, blockID) ==
    /\ Enter(th)
    /\ AttachLockFree(th)
    /\ LET r == CreateStorageAttachment(ds, uuid, instanceID, blockID, TRUE) IN
        /\ ds' = r.ds
        /\ uuid' = r.uuid
        /\ Goto(th, [Frame("createStorageAttachment") EXCEPT
                        !.pc = "attach-store", !.a = r.a.ID, !.id = instanceID,
                        !.data = [NoDevice EXCEPT !.ID = blockID]], FALSE)
    /\ UNCHANGED <<panicked, held, chans, locks, jobs, now, events, db>>

\* createStorageAttachment: ds.db.createStorageAttachment(a) and the return
StepCreateStorageAttachmentStore(th) ==
    /\ Step(th, "attach-store")
    /\ db' = dbCreateStorageAttachment(db, thr[th].a)
    /\ Goto(th, [thr[th] EXCEPT !.pc = "idle"], FALSE)
    /\ UNCHANGED <<ds, panicked, held, chans, locks, jobs, uuid, now, events>>

\* getStorageAttachment: the one section under attachLock.RLock
CallGetStorageAttachment(th, instanceID, volumeID) ==
    /\ Enter(th)
    /\ AttachLockFree(th)
    /\ LET r == GetStorageAttachment(ds, instanceID, volumeID) IN
        Record(th, [op |-> "getStorageAttachment", id |-> r.a.ID,
                    instance |-> instanceID, volume |-> volumeID, err |-> r.err])
    /\ UNCHANGED <<ds, panicked, held, thr, chans, locks, jobs, uuid, now, events, db>>

\* deleteStorageAttachment: the section under attachLock; an unknown ID
\* ends the call
CallDeleteStorageAttachment(th, ID) ==
    /\ Enter(th)
    /\ AttachLockFree(th)
    /\ LET r == DeleteStorageAttachment(ds, ID, TRUE) IN
        /\ ds' = r.ds
        /\ Goto(th, [Frame("deleteStorageAttachment") EXCEPT
                        !.pc = IF r.err # "" THEN "idle" ELSE "detach-store",
                        !.a = ID, !.err = r.err], FALSE)
    /\ UNCHANGED <<panicked, held, chans, locks, jobs, uuid, now, events, db>>

\* deleteStorageAttachment: ds.db.deleteStorageAttachment(ID) and the return
StepDeleteStorageAttachmentStore(th) ==
    /\ Step(th, "detach-store")
    /\ db' = dbDeleteStorageAttachment(db, thr[th].a)
    /\ Goto(th, [thr[th] EXCEPT !.pc = "idle"], FALSE)
    /\ UNCHANGED <<ds, panicked, held, chans, locks, jobs, uuid, now, events>>

\* GetTenantUsage: the one section under tenantUsageLock.RLock
CallGetTenantUsage(th, tenantID, start, end) ==
    /\ Enter(th)
    /\ LET r == GetTenantUsage(ds, tenantID, start, end) IN
        /\ panicked' = r.panic
        /\ Record(th, [op |-> "GetTenantUsage", tenant |-> tenantID,
                       start |-> start, end |-> end, usage |-> r.usage, err |-> ""])
    /\ UNCHANGED <<ds, held, thr, chans, locks, jobs, uuid, now, events, db>>

\* AddLimit: ds.db.addLimit (the limits table is not kept), then the one
\* section under tenantsLock
CallAddLimit(th, tenantID, resourceID, limit, dbOK) ==
    /\ Enter(th)
    /\ LET r == AddLimit(ds, tenantID, resourceID, limit, dbOK) IN
        /\ ds' = r.ds
        /\ Record(th, [op |-> "AddLimit", tenant |-> tenantID, resource |-> resourceID,
                       limit |-> limit, dbOK |-> dbOK, err |-> r.err])
    /\ UNCHANGED <<panicked, held, thr, chans, locks, jobs, uuid, now, events, db>>

\* ClearLog: ds.db.clearLog()
CallClearLog(th) ==
    /\ Enter(th)
    /\ events' = <<>>
    /\ Record(th, [op |-> "ClearLog", err |-> ""])
    /\ UNCHANGED <<ds, panicked, held, thr, chans, locks, jobs, uuid, now, db>>

\* a goroutine started with go ds.db... runs its store call
RunStoreJob(j) ==
    /\ ~panicked
    /\ j \in 1..Len(jobs)
    /\ "op" \in DOMAIN jobs[j]
    /\ db' = dbApply(db, jobs[j])
    /\ jobs' = SubSeq(jobs, 1, j - 1) \o SubSeq(jobs, j + 1, Len(jobs))
    /\ UNCHANGED <<ds, panicked, held, ret, prev, thr, chans, locks, uuid, now, events>>

\* one updateTenantUsage goroutine started by addInstanceStats runs
RunUsageJob(j) ==
    /\ ~panicked
    /\ j \in 1..Len(jobs)
    /\ "op" \notin DOMAIN jobs[j]
    /\ ds' = UpdateTenantUsage(ds, jobs[j], now)
    /\ jobs' = SubSeq(jobs, 1, j - 1) \o SubSeq(jobs, j + 1, Len(jobs))
    /\ prev' = ret
    /\ ret' = [n |-> ret.n, th |-> 0, op |-> "updateTenantUsage",
               tenant |-> jobs[j].tenant, delta |-> jobs[j], err |-> ""]
    /\ UNCHANGED <<panicked, held, thr, chans, locks, uuid, now, events, db>>

\* time passes
Tick(dt) ==
    /\ ~panicked
    /\ now + dt <= MaxNow
    /\ now' = now + dt
    /\ UNCHANGED <<ds, panicked, held, ret, prev, thr, chans, locks, jobs, uuid, events, db>>

\* history: the state at the entry of the call that returns in this step
Pre ==
    IF ret'.th \in Threads /\ thr[ret'.th].pc # "idle" THEN thr[ret'.th].at ELSE Entered

\* a call op returns in this step
Returned(op) == ret'.n # ret.n /\ ret'.op = op

----------------------------------------------------------------------------
(* Spec: the IP allocator under AddTenant, AllocateTenantIP and            *)
(* ReleaseTenantIP, called by the goroutines of Threads.  AllocateTenantIP *)
(* is one section under tenantsLock that starts the store call with go.    *)
(* AddTenant reads the cache, reads the store after a miss and writes the  *)
(* cache in a section of its own.  ReleaseTenantIP writes the cache in its *)
(* section and then calls the store.                                       *)

\* allocations already made for t1 at the start: <<full subnets, hosts in the next>>
StartsIP == {<<0, 0>>, <<0, 1>>, <<0, 252>>, <<0, 253>>}

\* addresses passed to ReleaseTenantIP: dotted quads, 172.16.0.2 written as
\* the IPv6 text ::ffff:172.16.0.2, the IPv6 address ::1, and a text that
\* is no address
ReleaseInputs ==
    {<<172, 16, 0, 2>>, <<172, 16, 0, 254>>, <<172, 16, 0, 0>>, <<172, 16, 0, 255>>,
     <<172, 16, 1, 2>>, <<172, 16, 2, 1>>, <<172, 16>>,
     V4InV6Prefix \o <<172, 16, 0, 2>>,
     <<0, 0, 0, 0, 0, 0, 0, 0, 0, 0, 0, 0, 0, 0, 0, 1>>}

\* the ReleaseTenantIP calls: every address for t1, which holds addresses
\* at the start, and addresses of the first two subnets for t2
ReleaseCalls ==
    ({"t1"} \X ReleaseInputs) \cup ({"t2"} \X {<<172, 16, 0, 2>>, <<172, 16, 1, 2>>})

Init ==
    /\ \/ ds = EmptyDS /\ held = {}
       \/ \E s \in StartsIP :
             /\ AllocatedStep("t1", s[1], s[2])
             /\ ds = AllocatedDS("t1", s[1], s[2])
             /\ held = AllocatedHeld("t1", s[1], s[2])
    /\ InitRest

Next ==
    \/ \E th \in Threads :
        \/ \E id \in TenantIDs, dbOK \in BOOLEAN : CallAddTenant(th, id, dbOK)
        \/ StepGetTenantNoCache(th)
        \/ StepAddTenantCache(th)
        \/ \E id \in TenantIDs : CallAllocateTenantIP(th, id)
        \/ \E c \in ReleaseCalls : CallReleaseTenantIP(th, c[1], c[2])
        \/ StepReleaseTenantIPCache(th)
        \/ StepReleaseTenantIPStore(th)
    \/ \E j \in 1..MaxOps : RunStoreJob(j)

Spec == Init /\ [][Next]_vars

\* SpecAlloc: AllocateTenantIP and ReleaseTenantIP alone, for tenants that
\* are cached

InitAlloc ==
    /\ \E s \in StartsIP :
          /\ AllocatedStep("t1", s[1], s[2])
          /\ ds = AddTenant(AllocatedDS("t1", s[1], s[2]), EmptyStore, "t2", TestMAC, TRUE).ds
          /\ held = AllocatedHeld("t1", s[1], s[2])
    /\ InitRest

NextAlloc ==
    \/ \E th \in Threads :
        \/ \E id \in TenantIDs : CallAllocateTenantIP(th, id)
        \/ \E c \in ReleaseCalls : CallReleaseTenantIP(th, c[1], c[2])
        \/ StepReleaseTenantIPCache(th)
        \/ StepReleaseTenantIPStore(th)
    \/ \E j \in 1..MaxOps : RunStoreJob(j)

SpecAlloc == InitAlloc /\ [][NextAlloc]_vars

\* the slot of an address in a tenant's table
Slot(ip) == <<BigEndianUint16(<<ip[2], ip[3]>>), ip[4]>>

\* the slot is claimed in the tenant's in-memory table
ClaimedInMemory(d, tenantID, ip) ==
    /\ TenantCached(d, tenantID)
    /\ Slot(ip)[1] \in DOMAIN d.tenants[tenantID].network
    /\ BoolAt(d.tenants[tenantID].network[Slot(ip)[1]], Slot(ip)[2])

----------------------------------------------------------------------------
(* Claims about the allocator *)

\* the last call was AllocateTenantIP and it returned an address
Allocated(r) == r.op = "AllocateTenantIP" /\ r.err = "" /\ r.ip # NilIP

HeldClaimed == \A e \in held : ClaimedInMemory(ds, e[1], e[2])

\* C1: under any interleaving of AllocateTenantIP and ReleaseTenantIP calls
\* (each changes the cache in one section of tenantsLock), every address
\* handed out and not yet released is claimed in the in-memory table, and a
\* call never returns an address that is handed out and not yet released.
C1_NoDoubleAllocation ==
    /\ HeldClaimed
    /\ [][/\ HeldClaimed'
          /\ (ret'.n # ret.n /\ Allocated(ret') /\ ~panicked')
                => \A e \in held : e[2] # ret'.ip]_vars

\* C1 witness: an address released by the previous call is handed out again
\* while other addresses are still held
C1_Witness ==
    /\ Allocated(ret) /\ prev.op = "ReleaseTenantIP" /\ prev.err = ""
    /\ prev.tenant = ret.tenant /\ prev.ip = ret.ip
    /\ Cardinality(held) >= 2

\* the subnet indices of a cached tenant: its subnet list and the keys of
\* its allocation table
SubnetsOf(d, id) ==
    {d.tenants[id].subnets[j] : j \in 1..Len(d.tenants[id].subnets)}
        \cup DOMAIN d.tenants[id].network

\* C2: no subnet index is in the subnet list or allocation table of two
\* distinct tenants, and addresses held by two distinct tenants differ in
\* their subnet bytes.
C2_SubnetsNotShared ==
    /\ \A a, b \in CachedTenants(ds) :
           a # b => SubnetsOf(ds, a) \cap SubnetsOf(ds, b) = {}
    /\ \A a, b \in TenantIDs :
           a # b => {Slot(e[2])[1] : e \in {x \in held : x[1] = a}}
                        \cap {Slot(e[2])[1] : e \in {x \in held : x[1] = b}} = {}

\* C2 witness: two tenants each hold an address
C2_Witness ==
    /\ \E e, f \in held : e[1] # f[1]
    /\ \A id \in TenantIDs : TenantCached(ds, id) /\ SubnetsOf(ds, id) # {}

\* number of hosts currently claimed in a subnet
ClaimedCount(hosts) == Cardinality(hosts.on)

\* the call just completed is AllocateTenantIP(id) on a cached tenant
AllocStep(id) ==
    ret'.n # ret.n /\ ret'.op = "AllocateTenantIP" /\ ret'.tenant = id /\ TenantCached(ds, id)

\* C9: AllocateTenantIP claims a new subnet only when every owned subnet has
\* 253 currently claimed hosts: if an owned subnet has fewer, the address
\* returned lies in a subnet owned before the call.
C9_ReuseBeforeNewSubnet ==
    [][\A id \in TenantIDs :
          (/\ AllocStep(id)
           /\ \E k \in DOMAIN ds.tenants[id].network :
                  ClaimedCount(ds.tenants[id].network[k]) < HostsPerSubnet)
          => /\ Allocated(ret')
             /\ Slot(ret'.ip)[1] \in DOMAIN ds.tenants[id].network
             /\ ds'.allSubnets = ds.allSubnets]_vars

\* goroutine th takes the step pc of its call
Did(th, pc) == thr[th].pc = pc /\ thr'[th] # thr[th]

\* goroutine th runs the section of a ReleaseTenantIP(id, ip) of a
\* well-formed address the tenant does not hold
ReleaseNotHeldStep(th, id) ==
    /\ Did(th, "release") /\ thr[th].op = "ReleaseTenantIP" /\ thr[th].tenant = id
    /\ TenantCached(ds, id)
    /\ ~ClaimedInMemory(ds, id, thr[th].ip)

\* C10: ReleaseTenantIP of a well-formed address the tenant does not hold
\* completes without failure and leaves the allocator unchanged: the next
\* AllocateTenantIP of every tenant returns what it would have returned
\* without the release.
C10_ReleaseNotHeldIsNoOp ==
    [][/\ \A id \in TenantIDs, th \in Threads :
            ReleaseNotHeldStep(th, id)
            => /\ ~panicked'
               /\ \A o \in CachedTenants(ds) :
                      AllocateTenantIP(ds', o).ip = AllocateTenantIP(ds, o).ip
       /\ (Returned("ReleaseTenantIP") /\ To4(ParseIP(ret'.ip)) # NilIP)
            => ret'.err = ""]_vars

----------------------------------------------------------------------------
(* SpecExhaust: one tenant that only allocates, started after 0, about     *)
(* 253 * 30 and about 253 * 4096 allocations.  Here held records only the  *)
(* addresses handed out since the start.                                   *)

StartsExhaust ==
    ({0, 29} \X (240..252)) \cup {<<30, 0>>}
        \cup {<<SubnetProbeCount - 1, HostsPerSubnet - 1>>}

InitExhaust ==
    /\ \E s \in StartsExhaust :
          /\ AllocatedStep("t1", s[1], s[2])
          /\ ds = AllocatedDS("t1", s[1], s[2])
    /\ held = {}
    /\ InitRest

NextExhaust ==
    \/ \E th \in Serial : CallAllocateTenantIP(th, "t1")
    \/ \E j \in 1..MaxOps : RunStoreJob(j)

SpecExhaust == InitExhaust /\ [][NextExhaust]_vars

\* the subnets of a tenant in which 253 hosts are claimed
FullSubnets(d, id) ==
    {k \in DOMAIN d.tenants[id].network :
        ClaimedCount(d.tenants[id].network[k]) = HostsPerSubnet}

\* C8 as stated: a tenant that only allocates holds at most 253 * 30
\* addresses (30 subnets of 253 hosts); the allocation after that returns
\* "Out of subnets".
C8_ThirtySubnets ==
    [][\A id \in TenantIDs :
          (AllocStep(id) /\ Cardinality(FullSubnets(ds, id)) >= 30)
              => ret'.err = "Out of subnets"]_vars

\* C8 amended: a tenant that only allocates owns at most 4096 subnets (the
\* probing range 16.0 .. 31.255) of at most 253 claimed hosts each, so at
\* most 253 * 4096 addresses; the allocation returns "Out of subnets"
\* exactly when it holds that many, and then changes nothing; every address
\* returned is in the probing range with a host in 2..254 and was not
\* claimed before.
C8_Exhaustion ==
    [][\A id \in TenantIDs :
          AllocStep(id) =>
            /\ Cardinality(DOMAIN ds'.tenants[id].network)
                  <= (SubnetLastByte - SubnetFirstByte + 1) * 256
            /\ \A k \in DOMAIN ds'.tenants[id].network :
                   ClaimedCount(ds'.tenants[id].network[k]) <= HostsPerSubnet
            /\ Cardinality(FullSubnets(ds, id)) = (SubnetLastByte - SubnetFirstByte + 1) * 256
                  <=> ret'.err = "Out of subnets"
            /\ Allocated(ret') =>
                  /\ ~ClaimedInMemory(ds, id, ret'.ip)
                  /\ ClaimedInMemory(ds', id, ret'.ip)
                  /\ ret'.ip[2] \in SubnetFirstByte..SubnetLastByte
                  /\ ret'.ip[4] \in FirstHost..(FirstHost + HostsPerSubnet - 1)
            /\ ~Allocated(ret') => ds' = ds /\ held' = held]_vars

\* C8 witness: the tenant holds 253 hosts in each of the 4096 subnets and
\* the call returned "Out of subnets"
C8_Witness ==
    /\ ret.op = "AllocateTenantIP" /\ ret.err = "Out of subnets"
    /\ Cardinality(FullSubnets(ds, "t1")) = (SubnetLastByte - SubnetFirstByte + 1) * 256

----------------------------------------------------------------------------
(* SpecInst: the instance cache under AddInstance, DeleteInstance,         *)
(* HandleStats and DeleteNode.  Tenant t1 is cached and holds two          *)
(* addresses, tenant t2 is not cached; node n1 has or has not reported.    *)

InstanceIDs == {"i1", "i2"}

\* the address AllocateTenantIP returned for the instance
InstanceIP(id) == IF id = "i1" THEN IPString(IPv4(IPPrefix, SubnetFirstByte, 0, FirstHost))
                  ELSE IPString(IPv4(IPPrefix, SubnetFirstByte, 0, FirstHost + 1))

\* Usage of the instances passed to AddInstance
InstanceUsage(id) ==
    IF id = "i1" THEN [name \in {"vcpus", "mem_mb"} |-> IF name = "vcpus" THEN 2 ELSE 1]
    ELSE [name \in {"vcpus", "disk_mb"} |-> IF name = "vcpus" THEN 1 ELSE 3]

\* the instances passed to AddInstance
InstanceInputs ==
    {[ID |-> id, TenantID |-> t, NodeID |-> n, State |-> "pending",
      IPAddress |-> InstanceIP(id), Usage |-> InstanceUsage(id),
      SSHIP |-> "", SSHPort |-> 0] :
        id \in InstanceIDs, t \in TenantIDs, n \in {"", "n1"}}

\* a statistics report of node n1
NodeStat(load, instances) ==
    [NodeUUID |-> "n1", NodeHostName |-> "host1", Status |-> "READY", Load |-> load,
     Instances |-> instances]

\* the statistic of one instance
InstanceStat(id, cpu, volumes) ==
    [InstanceUUID |-> id, State |-> "running", SSHIP |-> "192.168.0.1", SSHPort |-> 34567,
     CPUUsage |-> cpu, MemoryUsageMB |-> 1, DiskUsageMB |-> -1, Volumes |-> volumes]

StatInputsInst ==
    {NodeStat(load, instances) :
        load \in {-1, 0}, instances \in {<<>>, <<InstanceStat("i1", 2, <<>>)>>}}

\* t1 holds two addresses and node n1 has reported its load
ReportedDS == AddNodeStat(AllocatedDS("t1", 0, 2), NodeStat(0, <<>>))

InitInst ==
    /\ AllocatedStep("t1", 0, 2)
    /\ held = AllocatedHeld("t1", 0, 2)
    /\ \/ ds = AllocatedDS("t1", 0, 2)
       \/ ds = ReportedDS
    /\ InitRest

NextInst ==
    \/ \E th \in Serial :
        \/ \E instance \in InstanceInputs : CallAddInstance(th, instance)
        \/ StepAddInstanceCache(th)
        \/ StepAddInstanceTenant(th)
        \/ \E id \in InstanceIDs : CallDeleteInstance(th, id)
        \/ StepDeleteInstanceLastStat(th)
        \/ StepDeleteInstanceCache(th)
        \/ StepDeleteInstanceTenant(th)
        \/ StepDeleteInstanceNode(th)
        \/ StepRemoveInstance(th)
        \/ StepReleaseTenantIPCache(th)
        \/ StepReleaseTenantIPStore(th)
        \/ StepLogEvent(th)
        \/ \E stat \in StatInputsInst : CallHandleStats(th, stat, {})
        \/ StepNodeLastStat(th)
        \/ StepInstanceLastStat(th)
        \/ StepInstanceNode(th)
        \/ StepAttachLock(th)
        \/ CallDeleteNode(th, "n1")
        \/ StepDeleteNodeLast(th)
    \/ \E j \in 1..MaxOps : RunStoreJob(j) \/ RunUsageJob(j)

SpecInst == InitInst /\ [][NextInst]_vars

\* the call just completed is DeleteInstance of the instance that the call
\* before it added to a cached tenant, with an address the tenant holds
DeleteAfterAddStep ==
    /\ ret'.n # ret.n /\ ret'.op = "DeleteInstance"
    /\ ret.op = "AddInstance" /\ ret.id = ret'.id
    /\ TenantCached(Pre.ds, ret.tenant)
    /\ <<ret.tenant, ret.ip>> \in Pre.held

\* C3: AddInstance(i) followed immediately by DeleteInstance(i.ID), for an
\* instance of a cached tenant with an allocated address, leaves every
\* usage counter of the tenant at its value before the AddInstance and
\* leaves i absent from ds.instances, the tenant's index, its node's index
\* and ds.instanceLastStat.
C3_AddDeleteSymmetry ==
    [][DeleteAfterAddStep =>
          /\ ds'.tenants[ret.tenant].Resources = ret.before
          /\ ret.id \notin DOMAIN ds'.instances
          /\ ret.id \notin ds'.tenants[ret.tenant].instances
          /\ ret.node \in DOMAIN ds'.nodes => ret.id \notin ds'.nodes[ret.node].instances
          /\ ret.id \notin DOMAIN ds'.instanceLastStat]_vars

\* C3 witness: an instance placed on the known node n1 was added and then
\* deleted without error while the tenant keeps another instance
C3_Witness ==
    /\ ret.op = "DeleteInstance" /\ ret.err = "" /\ ~panicked
    /\ prev.op = "AddInstance" /\ prev.id = ret.id /\ prev.node = "n1"
    /\ TenantCached(ds, prev.tenant)
    /\ ds.tenants[prev.tenant].instances # {}
    /\ ds.tenants[prev.tenant].Resources = prev.before
    /\ \E j \in 1..Len(prev.before) : prev.before[j].Usage > 0

----------------------------------------------------------------------------
(* SpecVol: block devices and storage attachments under AddBlockDevice,    *)
(* DeleteBlockDevice and HandleStats.  Tenant t1 is cached, t2 is not;     *)
(* node n1 reports the volumes of instances i1 and i2.                     *)

VolumeIDs == {"v1", "v2"}

\* the devices passed to AddBlockDevice
DeviceInputs ==
    {[ID |-> v, TenantID |-> t, State |-> Available] : v \in VolumeIDs, t \in TenantIDs}

\* the instance statistics of the reports: each instance at most once
StatInputsVol ==
    {NodeStat(0, <<InstanceStat("i1", 1, vols)>>) :
        vols \in {<<>>, <<"v1">>, <<"v2">>, <<"v1", "v2">>}}
    \cup {NodeStat(0, <<InstanceStat("i2", 1, vols)>>) : vols \in {<<>>, <<"v2">>}}
    \cup {NodeStat(0, <<InstanceStat("i1", 1, <<"v1">>), InstanceStat("i2", 1, <<"v2">>)>>)}

InitVol ==
    /\ AllocatedStep("t1", 0, 2)
    /\ held = AllocatedHeld("t1", 0, 2)
    /\ \/ ds = AllocatedDS("t1", 0, 2)
       \/ ds = AddBlockDevice(AllocatedDS("t1", 0, 2),
                               [ID |-> "v1", TenantID |-> "t1", State |-> Available]).ds
    /\ InitRest

NextVol ==
    \/ \E th \in Serial :
        \/ \E device \in DeviceInputs : CallAddBlockDevice(th, device)
        \/ StepCheckBlockDevice(th)
        \/ StepAddBlockDeviceGlobal(th)
        \/ StepAddBlockDeviceTenant(th)
        \/ \E v \in VolumeIDs : CallDeleteBlockDevice(th, v)
        \/ \E stat \in StatInputsVol, failing \in {{}, {"v1"}} :
              CallHandleStats(th, stat, failing)
        \/ StepNodeLastStat(th)
        \/ StepInstanceLastStat(th)
        \/ StepInstanceNode(th)
        \/ StepAttachLock(th)
        \/ StepAttachNew(th)
        \/ StepAttachStore(th)
        \/ StepAttachGet(th)
        \/ StepAttachStale(th)
        \/ StepAttachDelete(th)
    \/ \E j \in 1..MaxOps : RunUsageJob(j)

SpecVol == InitVol /\ [][NextVol]_vars

\* the attachment IDs of the link (instance, volume) in the attachment map
AttachmentsOf(d, instanceID, v) ==
    {ID \in DOMAIN d.attachments :
        d.attachments[ID].InstanceID = instanceID /\ d.attachments[ID].BlockID = v}

\* the volumes a report lists for an instance, and all volumes it lists
ListedFor(stats, instanceID) ==
    UNION {{stats[j].Volumes[q] : q \in 1..Len(stats[j].Volumes)} :
              j \in {x \in 1..Len(stats) : stats[x].InstanceUUID = instanceID}}

Reported(stats) == {stats[j].InstanceUUID : j \in 1..Len(stats)}

\* the call just completed is HandleStats with a report that the persistent
\* store accepted
StatsStep == ret'.n # ret.n /\ ret'.op = "HandleStats" /\ ret'.failing = {}

\* v is a block device of a cached tenant
KnownDevice(d, v) ==
    v \in DOMAIN d.blockDevices /\ TenantCached(d, d.blockDevices[v].TenantID)

\* C6: for an Available block device v of a cached tenant, not yet attached
\* to instance i, a report for i that lists v makes v InUse and leaves
\* exactly one attachment (i, v); a report for i that omits v (no instance of the report lists it)
\* makes v Available again and leaves no attachment (i, v).
C6_ReportRoundTrip ==
    [][StatsStep =>
          \A i \in Reported(ret'.stats), v \in VolumeIDs :
             /\ (/\ KnownDevice(Pre.ds, v) /\ Pre.ds.blockDevices[v].State = Available
                 /\ AttachmentsOf(Pre.ds, i, v) = {}
                 /\ v \in ListedFor(ret'.stats, i))
                => /\ ds'.blockDevices[v].State = InUse
                   /\ Cardinality(AttachmentsOf(ds', i, v)) = 1
             /\ (/\ KnownDevice(Pre.ds, v) /\ AttachmentsOf(Pre.ds, i, v) # {}
                 /\ \A o \in Reported(ret'.stats) : v \notin ListedFor(ret'.stats, o))
                => /\ ds'.blockDevices[v].State = Available
                   /\ AttachmentsOf(ds', i, v) = {}]_vars

\* C7: updateStorageAttachments(i, V) removes only attachments of i: a
\* report leaves the attachments of every instance it does not mention in
\* place, and leaves the state of their volumes unchanged unless the report
\* lists the volume.
C7_OnlyOwnAttachmentsRemoved ==
    [][StatsStep =>
          \A ID \in DOMAIN Pre.ds.attachments :
             LET a == Pre.ds.attachments[ID]
             IN  a.InstanceID \notin Reported(ret'.stats)
                 => /\ ID \in DOMAIN ds'.attachments
                    /\ ds'.attachments[ID] = a
                    /\ (/\ a.BlockID \in DOMAIN Pre.ds.blockDevices
                        /\ \A o \in Reported(ret'.stats) :
                               a.BlockID \notin ListedFor(ret'.stats, o))
                       => ds'.blockDevices = Pre.ds.blockDevices]_vars

----------------------------------------------------------------------------
(* SpecCNCI: AddTenantChan, AddTenantCNCI, AddCNCIIP and StartFailure run  *)
(* by concurrent goroutines, one step per critical section and one per     *)
(* channel send.  Callers register a channel they just made (or nil).      *)
(* chans records, per channel, the tenant it was registered for, whether   *)
(* an event took it out of the registry, and what was sent on it.          *)

CNCIIDs == [t \in TenantIDs |-> IF t = "t1" THEN "cnci1" ELSE "cnci2"]

CNCIMACs == [t \in TenantIDs |-> IF t = "t1" THEN "mac1" ELSE "mac2"]

\* both tenants cached, each with its CNCI instance
CNCIStart ==
    LET d0 == AddTenant(AddTenant(EmptyDS, EmptyStore, "t1", TestMAC, TRUE).ds, EmptyStore, "t2", TestMAC, TRUE).ds
        d1 == AddTenantCNCI(d0, "t1", CNCIIDs["t1"], CNCIMACs["t1"]).ds
    IN  AddTenantCNCI(d1, "t2", CNCIIDs["t2"], CNCIMACs["t2"]).ds

InitCNCI ==
    /\ ds = CNCIStart
    /\ held = {}
    /\ panicked = FALSE
    /\ ret = NoCall
    /\ prev = NoCall
    /\ thr = [th \in Threads |-> Idle]
    /\ chans = EmptyMap
    /\ locks = EmptyMap
    /\ jobs = <<>>
    /\ uuid = 0
    /\ now = 0
    /\ events = <<>>
    /\ db = StoreOf(ds)

NextCNCI ==
    \E th \in Threads :
        \/ \E t \in TenantIDs, isNil \in BOOLEAN : CallAddTenantChan(th, t, isNil)
        \/ \E t \in TenantIDs : CallAddTenantCNCI(th, t, CNCIIDs[t], CNCIMACs[t])
        \/ \E mac \in {"mac1", "mac2", "mac3"} : CallAddCNCIIP(th, mac, "192.168.0.2")
        \/ \E id \in {"cnci1", "cnci2", "i1"} : CallStartFailure(th, id, "FullCloud")
        \/ StepStartFailureInstance(th)
        \/ StepRemoveTenantCNCI(th)
        \/ StepLogEvent(th)
        \/ StepPopChan(th)
        \/ StepSend(th)

SpecCNCI == InitCNCI /\ [][NextCNCI]_vars

\* the goroutines that took channel c out of the registry and have not
\* sent on it yet
Senders(c) == {th \in Threads : thr[th].pc = "send" /\ thr[th].c = c}

\* goroutine th takes its channel out of the registry in this step
PopStep(th) == thr[th].pc = "pop" /\ thr'[th].pc = "send"

\* C4: a channel taken out of the registry by a CNCI event gets exactly one
\* send (made, or about to be made by the one goroutine that took it), a
\* channel not taken out gets none; the value is true when AddCNCIIP sends
\* and false when StartFailure sends; a channel taken out is no longer
\* registered; and the step that picks the channel of tenant T removes T's
\* registration, so that no second goroutine can pick it.
C4_ExactlyOneSend ==
    /\ \A c \in DOMAIN chans :
          /\ Len(chans[c].sent) + Cardinality(Senders(c))
                = IF chans[c].popped THEN 1 ELSE 0
          /\ \A j \in 1..Len(chans[c].sent) :
                 chans[c].sent[j].val = (chans[c].sent[j].op = "AddCNCIIP")
          /\ chans[c].popped =>
                 \A t \in DOMAIN ds.cnciAddedChans : ds.cnciAddedChans[t] # c
    /\ [][\A th \in Threads :
             PopStep(th) =>
                /\ thr[th].tenant \notin DOMAIN ds'.cnciAddedChans
                /\ thr[th].tenant \in DOMAIN ds.cnciAddedChans
                      => thr'[th].c = ds.cnciAddedChans[thr[th].tenant]]_vars

\* C4 witness: AddCNCIIP and StartFailure of the same tenant run
\* concurrently; one took the registered channel and is about to send on
\* it, the other found the registry empty and will return without sending
C4_Witness ==
    \E a, b \in Threads :
        /\ thr[a].pc = "send" /\ thr[a].c # NilChan
        /\ chans[thr[a].c].popped /\ chans[thr[a].c].sent = <<>>
        /\ thr[b].pc = "send" /\ thr[b].c = NilChan
        /\ thr[b].tenant = thr[a].tenant
        /\ thr[b].op # thr[a].op
        /\ thr[a].tenant \notin DOMAIN ds.cnciAddedChans

----------------------------------------------------------------------------
(* SpecLocks: concurrent goroutines, each running the lock calls of one    *)
(* operation at a time.  A goroutine records the locks it holds in the     *)
(* order it took them.                                                     *)

IdleLocks == [op |-> "", steps |-> <<>>, pc |-> 0, stack |-> <<>>]

InitLocks ==
    /\ ds = EmptyDS
    /\ held = {}
    /\ panicked = FALSE
    /\ ret = NoCall
    /\ prev = NoCall
    /\ thr = [th \in Threads |-> IdleLocks]
    /\ chans = EmptyMap
    /\ locks = [x \in LockNames |-> FreeLock]
    /\ jobs = <<>>
    /\ uuid = 0
    /\ now = 0
    /\ events = <<>>
    /\ db = StoreOf(ds)

\* the lock call goroutine th is at: <<"", "">> when it is in no call
NextCall(th) ==
    IF thr[th].pc \in 1..Len(thr[th].steps) THEN thr[th].steps[thr[th].pc] ELSE <<"", "">>

\* th moves past its current lock call; the operation returns after the last
Advance(th, stack) ==
    IF thr[th].pc = Len(thr[th].steps) THEN [thr EXCEPT ![th] = IdleLocks]
    ELSE [thr EXCEPT ![th].pc = @ + 1, ![th].stack = stack]

\* a goroutine enters an operation; a behaviour has MaxOps of them
CallLocked(th, script) ==
    /\ ret.n < MaxOps
    /\ thr[th].pc = 0
    /\ ret' = [n |-> ret.n + 1, th |-> th, op |-> "call"]
    /\ thr' = IF script.steps = <<>> THEN thr
              ELSE [thr EXCEPT ![th] = [op |-> script.op, steps |-> script.steps,
                                        pc |-> 1, stack |-> <<>>]]
    /\ UNCHANGED <<ds, panicked, held, prev, chans, locks, jobs, uuid, now, events, db>>

\* Lock or RLock returns
StepAcquire(th) ==
    LET call == NextCall(th)
        x == call[2]
    IN  /\ call[1] \in {"Lock", "RLock"}
        /\ IF call[1] = "Lock"
           THEN /\ CanLock(locks[x])
                /\ locks' = [locks EXCEPT ![x].writer = th, ![x].pending = @ \ {th}]
           ELSE /\ CanRLock(locks[x])
                /\ locks' = [locks EXCEPT ![x].readers = @ \cup {th}]
        /\ thr' = Advance(th, Append(thr[th].stack, x))
        /\ UNCHANGED <<ds, panicked, held, ret, prev, chans, jobs, uuid, now, events, db>>

\* Lock finds the lock taken and blocks: new readers are kept out
StepBlock(th) ==
    LET call == NextCall(th)
        x == call[2]
    IN  /\ call[1] = "Lock"
        /\ ~CanLock(locks[x])
        /\ th \notin locks[x].pending
        /\ locks' = [locks EXCEPT ![x].pending = @ \cup {th}]
        /\ UNCHANGED <<ds, panicked, held, ret, prev, thr, chans, jobs, uuid, now, events, db>>

\* Unlock or RUnlock
StepRelease(th) ==
    LET call == NextCall(th)
        x == call[2]
        rest == SelectSeq(thr[th].stack, LAMBDA y : y # x)
    IN  /\ call[1] \in {"Unlock", "RUnlock"}
        /\ locks' = IF call[1] = "Unlock" THEN [locks EXCEPT ![x].writer = 0]
                    ELSE [locks EXCEPT ![x].readers = @ \ {th}]
        /\ thr' = Advance(th, rest)
        /\ UNCHANGED <<ds, panicked, held, ret, prev, chans, jobs, uuid, now, events, db>>

NextLocks ==
    \E th \in Threads :
        \/ \E script \in LockScripts : CallLocked(th, script)
        \/ StepAcquire(th)
        \/ StepBlock(th)
        \/ StepRelease(th)

SpecLocks == InitLocks /\ [][NextLocks]_vars

\* goroutine a cannot go on before goroutine b releases a lock
WaitsFor(a, b) ==
    LET call == NextCall(a)
        x == call[2]
    IN  \/ /\ call[1] = "Lock"
           /\ locks[x].writer = b \/ b \in locks[x].readers
        \/ /\ call[1] = "RLock"
           /\ locks[x].writer = b
              \/ (b \in locks[x].pending /\ locks[x].readers # {})

RECURSIVE WaitChain(_, _)
\* the goroutines that S waits for, directly or through others
WaitChain(S, n) ==
    IF n = 0 THEN S
    ELSE WaitChain(S \cup {b \in Threads : \E a \in S : WaitsFor(a, b)}, n - 1)

InWaitCycle(a) ==
    a \in WaitChain({b \in Threads : WaitsFor(a, b)}, Cardinality(Threads))

\* the global order of the locks: instances before tenants before nodes
LockRank ==
    [x \in LockNames |->
        CASE x = "attach" -> 1
          [] x = "bd" -> 2
          [] x = "instances" -> 3
          [] x = "tenants" -> 4
          [] x = "nodes" -> 5
          [] x = "instanceLastStat" -> 6
          [] x = "nodeLastStat" -> 7
          [] x = "cnciAdded" -> 8
          [] x = "tenantUsage" -> 9]

\* C5: no goroutines wait for each other's locks in a cycle, and the locks a
\* goroutine holds at once were taken in the global order.
C5_NoLockCycle ==
    /\ \A a \in Threads : ~InWaitCycle(a)
    /\ \A a \in Threads :
          \A j \in 1..Len(thr[a].stack), q \in 1..Len(thr[a].stack) :
              j < q => LockRank[thr[a].stack[j]] < LockRank[thr[a].stack[q]]

\* C5 witness: a goroutine holding two locks keeps another goroutine, which
\* holds a lock itself, waiting
C5_Witness ==
    \E a, b \in Threads :
        /\ a # b
        /\ Len(thr[a].stack) >= 2
        /\ Len(thr[b].stack) >= 1
        /\ WaitsFor(b, a)
        /\ b \in locks[NextCall(b)[2]].pending

----------------------------------------------------------------------------
(* Releasing an address twice (Spec) *)

\* the call just completed is ReleaseTenantIP(id, a) of an address a that
\* AllocateTenantIP handed to id and that was not released since, written
\* as a dotted quad or as IPv6 text
ReleaseHeldStep(th, id) ==
    /\ Did(th, "release") /\ thr[th].op = "ReleaseTenantIP" /\ thr[th].tenant = id
    /\ <<id, thr[th].ip>> \in held

\* goroutine th runs the section of a ReleaseTenantIP(id, a) that repeats
\* a ReleaseTenantIP(id, a): the slot of a is in the table and cleared
SecondReleaseStep(th, id) ==
    /\ Did(th, "release") /\ thr[th].op = "ReleaseTenantIP" /\ thr[th].tenant = id
    /\ TenantCached(ds, id)
    /\ Slot(thr[th].ip)[1] \in DOMAIN ds.tenants[id].network
    /\ Slot(thr[th].ip)[2] \in ds.tenants[id].network[Slot(thr[th].ip)[1]].off

\* C11: the first ReleaseTenantIP(t, a) of an allocated address clears the
\* slot (subnet, host) of a and nothing else: every other slot, the subnet
\* list, the set of claimed subnets and every other tenant are as before;
\* a second ReleaseTenantIP(t, a) right after it changes nothing.
C11_ReleaseTwice ==
    [][\A id \in TenantIDs, th \in Threads :
          /\ (ReleaseHeldStep(th, id) /\ ClaimedInMemory(ds, id, thr[th].ip)) =>
                LET k == Slot(thr[th].ip)[1]
                    h == Slot(thr[th].ip)[2]
                    before == ds.tenants[id].network
                    after == ds'.tenants[id].network
                IN  /\ ~panicked'
                    /\ ~ClaimedInMemory(ds', id, thr[th].ip)
                    /\ DOMAIN after = DOMAIN before
                    /\ \A s \in DOMAIN before :
                          /\ after[s].on \ {h} = before[s].on \ {h}
                          /\ s # k => after[s] = before[s]
                    /\ after[k].on = before[k].on \ {h}
                    /\ ds' = [ds EXCEPT !.tenants[id].network = after]
          /\ SecondReleaseStep(th, id) => ~panicked' /\ ds' = ds
          /\ (Returned("ReleaseTenantIP") /\ ret'.wasHeld) => ret'.err = ""]_vars

\* C11 witness: an allocated address was released twice in a row while the
\* tenant holds other addresses
C11_Witness ==
    /\ ret.op = "ReleaseTenantIP" /\ prev.op = "ReleaseTenantIP"
    /\ ret.tenant = prev.tenant /\ ret.ip = prev.ip
    /\ prev.wasHeld /\ prev.err = "" /\ ret.err = "" /\ ~panicked
    /\ ~ClaimedInMemory(ds, ret.tenant, To4(ParseIP(ret.ip)))
    /\ \E e \in held : e[1] = ret.tenant

----------------------------------------------------------------------------
(* SpecUsage: the usage history of tenant t1, whose instance i1 on node n1 *)
(* is reported by HandleStats while the clock advances.                    *)

\* the instance of tenant t1 the reports are about
UsageInstance ==
    [ID |-> "i1", TenantID |-> "t1", NodeID |-> "n1", State |-> "pending",
     IPAddress |-> InstanceIP("i1"), Usage |-> InstanceUsage("i1"),
     SSHIP |-> "", SSHPort |-> 0]

StatInputsUsage ==
    {NodeStat(0, <<InstanceStat("i1", cpu, <<>>)>>) : cpu \in {0, 2}}

\* the bounds passed to GetTenantUsage
QueryTimes == {0, 1, UsagePeriod, MaxNow}

\* the minutes the clock advances in one step
TickInputs == {1, 4}

InitUsage ==
    /\ AllocatedStep("t1", 0, 2)
    /\ held = AllocatedHeld("t1", 0, 2)
    /\ ds = AddInstance(ReportedDS, UsageInstance).ds
    /\ InitRest

NextUsage ==
    \/ \E th \in Serial :
        \/ \E stat \in StatInputsUsage : CallHandleStats(th, stat, {})
        \/ StepNodeLastStat(th)
        \/ StepInstanceLastStat(th)
        \/ StepInstanceNode(th)
        \/ StepAttachLock(th)
        \/ \E start \in QueryTimes, end \in QueryTimes :
              CallGetTenantUsage(th, "t1", start, end)
    \/ \E j \in 1..MaxOps : RunUsageJob(j)
    \/ \E dt \in TickInputs : Tick(dt)

SpecUsage == InitUsage /\ [][NextUsage]_vars

\* a step in which one updateTenantUsage goroutine runs
UsageJobStep == Len(jobs') < Len(jobs) /\ ret'.op = "updateTenantUsage"

\* the totals of the last point of a history plus a delta
Cumulative(history, delta) ==
    IF Len(history) = 0
    THEN [VCPU |-> delta.VCPU, Memory |-> delta.Memory, Disk |-> delta.Disk]
    ELSE [VCPU |-> history[Len(history)].VCPU + delta.VCPU,
          Memory |-> history[Len(history)].Memory + delta.Memory,
          Disk |-> history[Len(history)].Disk + delta.Disk]

Totals(u) == [VCPU |-> u.VCPU, Memory |-> u.Memory, Disk |-> u.Disk]

\* C12, as the code has it: a nonzero usage delta appends a new point,
\* timestamped now and holding the cumulative total, if the history is
\* empty or at least the 5-minute sampling interval has elapsed since the
\* last point (elapsed >= 5); otherwise (elapsed < 5) the last point is
\* overwritten in place, keeping its timestamp and holding the cumulative
\* total; an all-zero delta changes nothing; nothing else of the datastore
\* changes.
C12_UsageCoalescing ==
    [][UsageJobStep =>
        LET id == ret'.tenant
            delta == ret'.delta
            before == TenantUsageAt(ds, id)
            after == TenantUsageAt(ds', id)
            zero == delta.VCPU = 0 /\ delta.Memory = 0 /\ delta.Disk = 0
            fresh == Len(before) = 0 \/ now - before[Len(before)].Timestamp >= UsagePeriod
        IN  /\ zero => ds' = ds
            /\ ~zero /\ fresh =>
                  /\ Len(after) = Len(before) + 1
                  /\ SubSeq(after, 1, Len(before)) = before
                  /\ after[Len(after)].Timestamp = now
                  /\ Totals(after[Len(after)]) = Cumulative(before, delta)
            /\ ~zero /\ ~fresh =>
                  /\ Len(after) = Len(before)
                  /\ SubSeq(after, 1, Len(before) - 1) = SubSeq(before, 1, Len(before) - 1)
                  /\ after[Len(after)].Timestamp = before[Len(before)].Timestamp
                  /\ Totals(after[Len(after)]) = Cumulative(before, delta)
            /\ \A other \in (DOMAIN ds.tenantUsage \cup DOMAIN ds'.tenantUsage) \ {id} :
                  TenantUsageAt(ds', other) = TenantUsageAt(ds, other)
            /\ [ds' EXCEPT !.tenantUsage = ds.tenantUsage] = ds]_vars

\* C12 as stated: a nonzero delta arriving when the elapsed time is less
\* than or equal to the sampling interval overwrites the last point
C12_AsStated ==
    [][UsageJobStep =>
        LET before == TenantUsageAt(ds, ret'.tenant)
            after == TenantUsageAt(ds', ret'.tenant)
        IN  (/\ UpdateTenantUsageNeeded(ret'.delta)
             /\ Len(before) # 0
             /\ now - before[Len(before)].Timestamp <= UsagePeriod)
            => Len(after) = Len(before)]_vars

\* a goroutine has run, and the history of t1 holds a coalesced point
\* followed by a point appended exactly one sampling interval later
C12_Witness ==
    /\ ret.op = "updateTenantUsage"
    /\ ~panicked
    /\ LET history == TenantUsageAt(ds, "t1")
       IN  /\ Len(history) = 2
           /\ history[2].Timestamp - history[1].Timestamp = UsagePeriod
           /\ history[1].VCPU = 2
           /\ jobs = <<>>

\* a completed GetTenantUsage call with start <= end
UsageQueryStep ==
    ret'.n # ret.n /\ ret'.op = "GetTenantUsage" /\ ret'.start <= ret'.end

\* what the code does for a time-ascending history and start <= end:
\* GetTenantUsage(tenant, start, end) returns exactly the samples whose
\* timestamp t satisfies start <= t < end, in history order: a sample
\* stamped start is included, a sample stamped end is not.
UsageRangeHalfOpen ==
    [][UsageQueryStep =>
        /\ ~panicked'
        /\ ret'.usage = SelectSeq(TenantUsageAt(ds, ret'.tenant),
                                  LAMBDA u : ret'.start <= u.Timestamp
                                             /\ u.Timestamp < ret'.end)]_vars

\* C13: for every time-ascending usage history and every start <= end,
\* GetTenantUsage(tenant, start, end) returns exactly the samples whose
\* timestamp t satisfies start <= t <= end, in history order, a sample
\* stamped start and a sample stamped end included.
C13_UsageRange ==
    [][UsageQueryStep =>
        ret'.usage = SelectSeq(TenantUsageAt(ds, ret'.tenant),
                               LAMBDA u : ret'.start <= u.Timestamp
                                          /\ u.Timestamp <= ret'.end)]_vars

\* a query whose bounds are the timestamps of two samples has returned the
\* first of them
QueryAtSampleTimes ==
    /\ ret.op = "GetTenantUsage"
    /\ ~panicked
    /\ ret.start < ret.end
    /\ LET history == TenantUsageAt(ds, ret.tenant)
       IN  /\ Len(history) = 2
           /\ history[1].Timestamp = ret.start
           /\ history[2].Timestamp = ret.end
           /\ ret.usage = <<history[1]>>

----------------------------------------------------------------------------
(* Statistics without a node-level part (SpecInst)                         *)

\* a HandleStats call whose report carries the load given
HandleStatsStep(load) ==
    ret'.n # ret.n /\ ret'.op = "HandleStats" /\ ret'.load = load

\* what a node is apart from its instance index
NodeIdentity(d) == [id \in DOMAIN d.nodes |-> [ID |-> d.nodes[id].ID,
                                              Hostname |-> d.nodes[id].Hostname]]

\* C14: HandleStats with Load = -1 leaves the nodes and the node last-stats
\* unchanged and still ingests every instance record (its last-stats
\* replaced, a known instance's state, node ID and SSH endpoint updated),
\* whatever the reporting node, also one never seen before.
C14_SentinelIngests ==
    [][HandleStatsStep(-1) =>
        /\ ~panicked'
        /\ NodeIdentity(ds') = NodeIdentity(Pre.ds)
        /\ ds'.nodeLastStat = Pre.ds.nodeLastStat
        /\ \A k \in 1..Len(ret'.stats) :
              LET stat == ret'.stats[k]
                  id == stat.InstanceUUID
              IN  /\ id \in DOMAIN ds'.instanceLastStat
                  /\ ds'.instanceLastStat[id].NodeID = ret'.node
                  /\ ds'.instanceLastStat[id].Status = stat.State
                  /\ id \in DOMAIN Pre.ds.instances =>
                        /\ ds'.instances[id].State = stat.State
                        /\ ds'.instances[id].NodeID = ret'.node
                        /\ ds'.instances[id].SSHIP = stat.SSHIP
                        /\ ds'.instances[id].SSHPort = stat.SSHPort]_vars

\* C14, second half: HandleStats with Load # -1 creates a node not seen
\* before, with the reported ID and the hostname of the report, and then
\* ingests the instance records
C14_NodeCreated ==
    [][HandleStatsStep(0) =>
        /\ ~panicked'
        /\ ret'.node \in DOMAIN ds'.nodes
        /\ ds'.nodes[ret'.node].ID = ret'.node
        /\ ds'.nodes[ret'.node].Hostname = "host1"
        /\ \A k \in 1..Len(ret'.stats) :
              ret'.stats[k].InstanceUUID \in DOMAIN ds'.instanceLastStat]_vars

----------------------------------------------------------------------------
(* SpecFail: the failure handlers.  Tenant t1 is cached and holds two      *)
(* addresses, t2 is not cached; node n1 has reported; instance i1 of t1    *)
(* runs on n1; volume v1 of t1 is in any of the four states, v2 is         *)
(* unknown, v3 of t1 is attaching.                                         *)

DeviceStates == {Available, Attaching, InUse, Detaching}

StartFailureReasons == DeletingReasons \cup RetryReasons

InitFail ==
    /\ AllocatedStep("t1", 0, 2)
    /\ held = AllocatedHeld("t1", 0, 2)
    /\ \E state \in DeviceStates :
          ds = AddBlockDevice(
                  AddBlockDevice(AddInstance(ReportedDS, UsageInstance).ds,
                                 [ID |-> "v3", TenantID |-> "t1", State |-> Attaching]).ds,
                  [ID |-> "v1", TenantID |-> "t1", State |-> state]).ds
    /\ InitRest

\* the calls of SpecFail: at most MaxFailOps of them in a behaviour
FailEnter == ret.n + Cardinality(Busy) < MaxFailOps

NextFail ==
    \/ \E th \in Serial :
        \/ FailEnter /\ \E instance \in InstanceInputs : CallAddInstance(th, instance)
        \/ StepAddInstanceCache(th)
        \/ StepAddInstanceTenant(th)
        \/ FailEnter /\ \E id \in InstanceIDs : CallDeleteInstance(th, id)
        \/ StepDeleteInstanceLastStat(th)
        \/ StepDeleteInstanceCache(th)
        \/ StepDeleteInstanceTenant(th)
        \/ StepDeleteInstanceNode(th)
        \/ StepRemoveInstance(th)
        \/ StepReleaseTenantIPCache(th)
        \/ StepReleaseTenantIPStore(th)
        \/ FailEnter /\ \E id \in InstanceIDs, reason \in StartFailureReasons :
                           CallStartFailure(th, id, reason)
        \/ StepStartFailureInstance(th)
        \/ FailEnter /\ \E op \in {"RestartFailure", "StopFailure"}, id \in InstanceIDs :
                           CallInstanceFailure(th, op, id)
        \/ FailEnter /\ \E op \in VolumeFailureOps, id \in InstanceIDs, v \in VolumeIDs :
                           CallVolumeFailure(th, op, id, v)
        \/ StepGetBlockDevice(th)
        \/ StepCheckBlockDevice(th)
        \/ StepAddBlockDeviceGlobal(th)
        \/ StepAddBlockDeviceTenant(th)
        \/ StepGetOwner(th)
        \/ StepLogEvent(th)
        \/ FailEnter /\ CallClearLog(th)
    \/ \E j \in 1..MaxFailOps : RunStoreJob(j)
SpecFail == InitFail /\ [][NextFail]_vars

\* the instance is in ds.instances and is no tenant's CNCI; its tenant is
\* cached, indexes it and holds its address; its node, if any, is known
PlacedInstance(d, id) ==
    /\ id \in DOMAIN d.instances
    /\ \A t \in CachedTenants(d) : d.tenants[t].CNCIID # id
    /\ DOMAIN d.tenants = CachedTenants(d)
    /\ LET i == d.instances[id]
       IN  /\ TenantCached(d, i.TenantID)
           /\ id \in d.tenants[i.TenantID].instances
           /\ i.NodeID # "" => i.NodeID \in DOMAIN d.nodes
           /\ ClaimedInMemory(d, i.TenantID, i.IPAddress)

\* the instance is in ds.instances and is no tenant's CNCI
ExistingInstance(d, id) ==
    /\ id \in DOMAIN d.instances
    /\ \A t \in CachedTenants(d) : d.tenants[t].CNCIID # id

\* a completed StartFailure call for an existing instance that is no CNCI
StartFailureOfExisting ==
    ret'.n # ret.n /\ ret'.op = "StartFailure" /\ ExistingInstance(Pre.ds, ret'.id)

\* a completed StartFailure call for a placed instance
StartFailureStep ==
    StartFailureOfExisting /\ PlacedInstance(Pre.ds, ret'.id)

\* the reasons the claim names for which the instance is deleted
FatalReasons ==
    {"FullCloud", "FullComputeNode", "NoComputeNodes", "NoNetworkNodes",
     "InvalidPayload", "InvalidData", "ImageFailure", "NetworkFailure"}

\* what the instance takes of a resource of its tenant
UsageOf(i, resource) ==
    (IF resource.Rname \in DOMAIN i.Usage THEN i.Usage[resource.Rname] ELSE 0)
    + (IF resource.Rtype = InstancesRtype THEN 1 ELSE 0)

\* what the call that returns has done to its instance: with a deleting
\* reason the instance is in none of ds.instances, its tenant's index, the
\* index of any node and ds.instanceLastStat, the tenant's usage counters
\* are down by the instance's usage and the instance count by 1, and the
\* address is released; with another reason nothing has changed
StartFailureEffect ==
    LET id == ret'.id
        i == Pre.ds.instances[id]
        t == i.TenantID
        before == Pre.ds.tenants[t].Resources
        after == ds'.tenants[t].Resources
    IN  /\ ~panicked'
        /\ ret'.err = ""
        /\ ret'.reason \in FatalReasons =>
              /\ id \notin DOMAIN ds'.instances
              /\ TenantCached(ds', t)
              /\ id \notin ds'.tenants[t].instances
              /\ \A n \in DOMAIN ds'.nodes : id \notin ds'.nodes[n].instances
              /\ id \notin DOMAIN ds'.instanceLastStat
              /\ Len(after) = Len(before)
              /\ \A j \in 1..Len(before) :
                    after[j] = [before[j] EXCEPT !.Usage = @ - UsageOf(i, before[j])]
              /\ ~ClaimedInMemory(ds', t, i.IPAddress)
              /\ <<t, i.IPAddress>> \notin held'
              /\ DOMAIN ds'.instances = DOMAIN Pre.ds.instances \ {id}
        /\ ret'.reason \notin FatalReasons => ds' = Pre.ds /\ held' = Pre.held

\* C15: StartFailure for an existing instance that is no CNCI deletes it
\* fully (from ds.instances, its tenant's index, its node's index and
\* ds.instanceLastStat; the tenant's usage counters go down by the
\* instance's usage and the instance count by 1; its address is released)
\* when the reason is one of FullCloud, FullComputeNode, NoComputeNodes,
\* NoNetworkNodes, InvalidPayload, InvalidData, ImageFailure and
\* NetworkFailure, and for LaunchFailure, AlreadyRunning and InstanceExists
\* it leaves the datastore (instance, usage counters, allocator) unchanged.
C15_StartFailureDeletes ==
    [][StartFailureOfExisting => StartFailureEffect]_vars

\* the part that holds: the same for an instance whose tenant is cached,
\* indexes it and holds its address, and whose node, if any, is known
C15_PlacedInstanceDeleted ==
    [][StartFailureStep => StartFailureEffect]_vars

\* StartFailure with a deleting reason has removed the placed instance i1
\* while the tenant keeps instance i2 and only i2's usage
C15_PlacedDeleted ==
    /\ ret.op = "StartFailure" /\ ret.id = "i1" /\ ret.reason = "ImageFailure"
    /\ ret.err = "" /\ ~panicked
    /\ DOMAIN ds.instances = {"i2"}
    /\ TenantCached(ds, "t1")
    /\ ds.tenants["t1"].instances = {"i2"}
    /\ \E j \in 1..Len(ds.tenants["t1"].Resources) :
          /\ ds.tenants["t1"].Resources[j].Rtype = InstancesRtype
          /\ ds.tenants["t1"].Resources[j].Usage = 1
    /\ ~ClaimedInMemory(ds, "t1", InstanceIP("i1"))
    /\ ClaimedInMemory(ds, "t1", InstanceIP("i2"))

----------------------------------------------------------------------------
(* StartFailure of a CNCI (SpecCNCI)                                       *)

\* goroutine th, in StartFailure, runs removeTenantCNCI in this step
RemoveStep(th) == thr[th].pc = "remove" /\ thr'[th].pc = "log"

\* goroutine th, in StartFailure, leaves the section under cnciAddedLock
FailurePopStep(th) == PopStep(th) /\ thr[th].op = "StartFailure"

\* goroutine th, in StartFailure, passes the send in this step
FailureSendStep(th) ==
    thr[th].pc = "send" /\ thr[th].op = "StartFailure" /\ thr'[th].pc = "idle"

\* a goroutine runs the section of AddTenantCNCI or the first section of
\* AddCNCIIP in this step
CNCISetStep ==
    \E o \in Threads :
        /\ thr[o].pc = "idle"
        /\ \/ thr'[o].op = "AddCNCIIP"
           \/ ret'.n # ret.n /\ ret'.th = o /\ ret'.op \in {"AddTenantCNCI", "AddCNCIIP"}

\* what the claim says StartFailure of a CNCI leaves alone
Untouched(d) ==
    [instances |-> d.instances,
     lastStat |-> d.instanceLastStat,
     nodes |-> d.nodes,
     subnets |-> d.allSubnets,
     tenants |-> [t \in CachedTenants(d) |->
                     [instances |-> d.tenants[t].instances,
                      Resources |-> d.tenants[t].Resources,
                      network |-> d.tenants[t].network,
                      subnets |-> d.tenants[t].subnets,
                      CNCIMAC |-> d.tenants[t].CNCIMAC]]]

\* C16: StartFailure for the CNCI instance of a cached tenant clears the
\* tenant's CNCI ID and CNCI IP and keeps the MAC; it then sends false to
\* the waiter registered for the tenant, if any; no step of it changes an
\* instance map, a usage counter or an address allocation; and the fields
\* are cleared before false is sent: the goroutine holds no channel until
\* it has cleared them, and once cleared they stay cleared until another
\* call (AddTenantCNCI, AddCNCIIP) sets them.
C16_CNCIRollback ==
    [][\A th \in Threads :
          /\ RemoveStep(th) =>
                /\ ~panicked'
                /\ ds' = [ds EXCEPT !.tenants[thr[th].tenant].CNCIID = "",
                                    !.tenants[thr[th].tenant].CNCIIP = ""]
                /\ thr[th].c = NilChan /\ thr'[th].c = NilChan
                /\ chans' = chans
          /\ \A t \in CachedTenants(ds) :
                (/\ ds.tenants[t].CNCIID = "" /\ ds.tenants[t].CNCIIP = ""
                 /\ ~CNCISetStep)
                => ds'.tenants[t].CNCIID = "" /\ ds'.tenants[t].CNCIIP = ""
          /\ FailurePopStep(th) =>
                /\ Untouched(ds') = Untouched(ds)
                /\ ds'.tenants = ds.tenants
          /\ FailureSendStep(th) =>
                /\ ds' = ds
                /\ thr[th].c # NilChan =>
                      /\ chans'[thr[th].c].sent
                            = Append(chans[thr[th].c].sent,
                                     [val |-> FALSE, op |-> "StartFailure"])
                /\ thr[th].c = NilChan => chans' = chans]_vars

\* C16 witness: StartFailure of the CNCI of a tenant with a registered
\* waiter has sent false on the waiter's channel; the tenant has no CNCI ID
\* and no CNCI IP and keeps its MAC
C16_Witness ==
    \E c \in DOMAIN chans, t \in TenantIDs :
        /\ chans[c].sent = <<[val |-> FALSE, op |-> "StartFailure"]>>
        /\ ~panicked
        /\ \A th \in Threads : thr[th].pc = "idle"
        /\ TenantCached(ds, t)
        /\ ds.tenants[t].CNCIID = "" /\ ds.tenants[t].CNCIIP = ""
        /\ ds.tenants[t].CNCIMAC = CNCIMACs[t]
        /\ events # <<>> /\ events[Len(events)].tenant = t

\* a completed AttachVolumeFailure or DetachVolumeFailure call
VolumeFailureStep ==
    ret'.n # ret.n /\ ret'.op \in {"AttachVolumeFailure", "DetachVolumeFailure"}

\* the state the handler puts the volume back into
StateAfter(op) == IF op = "AttachVolumeFailure" THEN Available ELSE InUse

\* C17: for a block device of the device map, whatever its state,
\* AttachVolumeFailure sets the state to available and DetachVolumeFailure
\* to in-use, in ds.blockDevices and in the device map of the owning
\* (cached) tenant, and changes no other field and no other device; for a
\* volume ID that is not in the device map neither handler creates a
\* device.
C17_VolumeFailureState ==
    [][VolumeFailureStep =>
        LET v == ret'.volume
            owner == Pre.ds.blockDevices[v].TenantID
            after == [Pre.ds.blockDevices[v] EXCEPT !.State = StateAfter(ret'.op)]
        IN  /\ (v \in DOMAIN Pre.ds.blockDevices /\ TenantCached(Pre.ds, owner)) =>
                  /\ ~panicked'
                  /\ DOMAIN ds'.blockDevices = DOMAIN Pre.ds.blockDevices
                  /\ \A w \in DOMAIN Pre.ds.blockDevices :
                        ds'.blockDevices[w] = IF w = v THEN after ELSE Pre.ds.blockDevices[w]
                  /\ DOMAIN ds'.tenants[owner].devices
                        = DOMAIN Pre.ds.tenants[owner].devices \cup {v}
                  /\ \A w \in DOMAIN ds'.tenants[owner].devices :
                        ds'.tenants[owner].devices[w]
                            = IF w = v THEN after ELSE Pre.ds.tenants[owner].devices[w]
                  /\ [ds' EXCEPT !.blockDevices = Pre.ds.blockDevices,
                                 !.tenants[owner].devices = Pre.ds.tenants[owner].devices] = Pre.ds
            /\ v \notin DOMAIN Pre.ds.blockDevices => ds' = Pre.ds /\ ~panicked']_vars

\* C17 witness: AttachVolumeFailure has put v1, which was not available,
\* back to available in both maps, next to the untouched v3
C17_Witness ==
    /\ ret.op = "AttachVolumeFailure" /\ ret.volume = "v1" /\ ret.n = 1
    /\ ~panicked
    /\ ds.blockDevices["v1"].State = Available
    /\ ds.tenants["t1"].devices["v1"].State = Available
    /\ ds.blockDevices["v3"].State = Attaching
    /\ ds.tenants["t1"].devices["v3"].State = Attaching
    /\ "v2" \notin DOMAIN ds.blockDevices

----------------------------------------------------------------------------
(* SpecTenant: the tenant cache under AddTenant, GetTenant, AddLimit and   *)
(* AllocateTenantIP, called by the goroutines of Threads from an empty     *)
(* cache.                                                                  *)

InitTenant ==
    /\ ds = EmptyDS
    /\ held = {}
    /\ InitRest

\* the resources AddLimit is called for: the instance count, the memory
\* and a type no tenant has
LimitResources == {1, 3, 4}

\* the limits AddLimit is called with
LimitValues == {1, 10}

NextTenant ==
    \/ \E th \in Threads :
        \/ \E id \in TenantIDs, dbOK \in BOOLEAN : CallAddTenant(th, id, dbOK)
        \/ StepGetTenantNoCache(th)
        \/ StepAddTenantCache(th)
        \/ \E id \in TenantIDs, stored \in StoreAnswers : CallGetTenant(th, id, stored)
        \/ \E id \in TenantIDs : CallAllocateTenantIP(th, id)
        \/ \E id \in TenantIDs, resourceID \in LimitResources, limit \in LimitValues,
              dbOK \in BOOLEAN :
               CallAddLimit(th, id, resourceID, limit, dbOK)
    \/ \E j \in 1..MaxOps : RunStoreJob(j)

SpecTenant == InitTenant /\ [][NextTenant]_vars

\* a completed call of the operation named
TenantStep(op) == ret'.n # ret.n /\ ret'.op = op

\* C18: after AddTenant(id) succeeds the tenant is in the cache, and
\* GetTenant(id) of a cached tenant returns the tenant with that ID without
\* calling the persistent store; GetTenant on a cache miss reads the
\* persistent store; GetTenant never changes the cache.
C18_GetTenantCache ==
    [][/\ (TenantStep("AddTenant") /\ ~panicked' /\ ret'.err = "") =>
              /\ TenantCached(ds', ret'.tenant)
              /\ ds'.tenants[ret'.tenant].ID = ret'.tenant
       /\ TenantStep("GetTenant") =>
              /\ ds' = ds
              /\ TenantCached(Pre.ds, ret'.tenant) =>
                    ~ret'.dbRead /\ ret'.found /\ ret'.ID = ret'.tenant /\ ret'.err = ""
              /\ ~TenantCached(Pre.ds, ret'.tenant) =>
                    /\ ret'.dbRead
                    /\ ret'.found <=> ret'.stored = "tenant"
                    /\ ret'.err # "" <=> ret'.stored = "error"
       /\ \A th \in Threads :
              (thr[th].op = "GetTenant" /\ thr'[th] # thr[th]) => ds' = ds]_vars

\* C18 witness: GetTenant right after a successful AddTenant of the same
\* ID returned the tenant without a read of the persistent store, and a
\* tenant that is only in the persistent store is still not cached
C18_Witness ==
    /\ ret.op = "GetTenant" /\ prev.op = "AddTenant" /\ prev.tenant = ret.tenant
    /\ prev.err = "" /\ prev.dbOK /\ ~panicked
    /\ ret.found /\ ret.ID = ret.tenant /\ ~ret.dbRead
    /\ \E other \in TenantIDs : other \notin DOMAIN ds.tenants

\* C19: if the persistent store fails to add or return the tenant,
\* AddTenant returns an error and no tenant, and the cache gains no entry
\* for the ID, in particular no nil entry.
C19_AddTenantFailure ==
    [][(TenantStep("AddTenant") /\ ~ret'.dbOK /\ ret'.tenant \notin DOMAIN Pre.ds.tenants) =>
          /\ ~panicked'
          /\ ret'.err # ""
          /\ ret'.tenant \notin DOMAIN ds'.tenants]_vars

----------------------------------------------------------------------------
(* The event log of the failure handlers (SpecFail)                        *)

LoggingOps ==
    {"DeleteInstance", "StartFailure", "RestartFailure", "StopFailure",
     "AttachVolumeFailure", "DetachVolumeFailure"}

\* a completed call of one of the logging operations for a placed instance
LoggingStep ==
    ret'.n # ret.n /\ ret'.op \in LoggingOps /\ PlacedInstance(Pre.ds, ret'.id)

\* C20: each of DeleteInstance, StartFailure, RestartFailure, StopFailure,
\* AttachVolumeFailure and DetachVolumeFailure, called for an existing
\* instance, appends exactly one entry to the event log, and the tenant key
\* of the entry is the ID of the tenant that owns the instance.
C20_EventPerCall ==
    [][LoggingStep =>
        /\ Len(events') = Len(Pre.events) + 1
        /\ SubSeq(events', 1, Len(Pre.events)) = Pre.events
        /\ events'[Len(events')].tenant = Pre.ds.instances[ret'.id].TenantID]_vars

\* the same for the five failure handlers only
C20_FailureHandlersLog ==
    [][(LoggingStep /\ ret'.op # "DeleteInstance") =>
        /\ Len(events') = Len(Pre.events) + 1
        /\ SubSeq(events', 1, Len(Pre.events)) = Pre.events
        /\ events'[Len(events')].tenant = Pre.ds.instances[ret'.id].TenantID]_vars

-----------------------------------------------------------------------------
(* SpecLaunch: instance launches and teardowns of tenant t1.  A launch is  *)
(* what addTestInstance does: AllocateTenantIP, then AddInstance of a new  *)
(* instance carrying the address returned.  The behaviours start either    *)
(* with no instance or after LaunchedCount launches, one address short of  *)
(* a full first subnet.                                                    *)

LaunchedCount == HostsPerSubnet - 1

\* the ID of the instance launched on host h of the first subnet
LaunchedID(h) == "b" \o ToString(h)

\* the instance a launch adds
LaunchInstance(instanceID, tenantID, ip) ==
    [ID |-> instanceID, TenantID |-> tenantID, NodeID |-> "", State |-> "pending",
     IPAddress |-> ip, Usage |-> InstanceUsage("i1"), SSHIP |-> "", SSHPort |-> 0]

\* AllocateTenantIP(tenantID), then AddInstance with the address returned;
\* jobs are the store calls the two start with go
Launch(d, instanceID, tenantID) ==
    LET a == AllocateTenantIP(d, tenantID)
    IN  IF a.panic \/ a.err # ""
        THEN [ds |-> a.ds, ip |-> NilIP, err |-> a.err, panic |-> a.panic, jobs |-> a.jobs]
        ELSE LET b == AddInstance(a.ds, LaunchInstance(instanceID, tenantID, IPString(a.ip)))
             IN  [ds |-> b.ds, ip |-> IPString(a.ip), err |-> b.err, panic |-> b.panic,
                  jobs |-> a.jobs \o b.jobs]

\* the datastore after AddTenant(id) and k launches, k <= 253, of the
\* instances LaunchedID(2) .. LaunchedID(k + 1)
LaunchedDS(id, k) ==
    LET base == AllocatedDS(id, 0, k)
        hostsUsed == FirstHost..(FirstHost + k - 1)
        ids == {LaunchedID(h) : h \in hostsUsed}
        hostOf(x) == CHOOSE h \in hostsUsed : LaunchedID(h) = x
        inst(x) == LaunchInstance(x, id,
                       IPString(IPv4(IPPrefix, SubnetProbeBytes(0)[1], SubnetProbeBytes(0)[2],
                                     hostOf(x))))
        res == base.tenants[id].Resources
        one == CountInstance(ApplyUsage(res, InstanceUsage("i1"), 1), 1)
    IN  IF k = 0 THEN base
        ELSE [base EXCEPT
                !.instances = [x \in ids |-> inst(x)],
                !.instanceLastStat = [x \in ids |-> NewInstanceStat(inst(x))],
                !.tenants[id].instances = ids,
                !.tenants[id].Resources =
                    [j \in 1..Len(res) |->
                        [res[j] EXCEPT !.Usage = @ + k * (one[j].Usage - res[j].Usage)]]]

\* LaunchedDS(id, k) is what one more launch makes of its predecessor
LaunchedStep(id, k) ==
    \/ k = 0
    \/ k > 0 /\ Launch(LaunchedDS(id, k - 1), LaunchedID(FirstHost + k - 1), id).ds
                    = LaunchedDS(id, k)

\* a launch, as addTestInstance makes it: the call of AllocateTenantIP, its
\* one section under tenantsLock; AddInstance follows with the address
\* returned, or the launch returns the error
CallLaunch(th, instanceID, tenantID) ==
    /\ Enter(th)
    /\ instanceID \notin DOMAIN ds.instances
    /\ LET r == AllocateTenantIP(ds, tenantID)
           f == [Frame("Launch") EXCEPT !.id = instanceID, !.tenant = tenantID] IN
        /\ ds' = r.ds
        /\ panicked' = r.panic
        /\ held' = IF ~r.panic /\ r.err = "" THEN held \cup {<<tenantID, IPString(r.ip)>>}
                   ELSE held
        /\ jobs' = jobs \o r.jobs
        /\ Goto(th, IF r.panic \/ r.err # "" THEN [f EXCEPT !.err = r.err]
                    ELSE [f EXCEPT !.pc = "add-cache",
                                   !.instance = LaunchInstance(instanceID, tenantID,
                                                               IPString(r.ip))], r.panic)
    /\ UNCHANGED <<chans, locks, uuid, now, events, db>>

\* the instances torn down: the new ones, and the first and the last of the
\* instances launched before the start
TeardownIDs == InstanceIDs \cup {LaunchedID(FirstHost), LaunchedID(FirstHost + LaunchedCount - 1)}

\* a reason that makes StartFailure delete the instance, and one that does not
LaunchFailureReasons == {"FullCloud", "LaunchFailure"}

InitLaunch ==
    /\ \E k \in {0, LaunchedCount} :
        /\ LaunchedStep("t1", k)
        /\ ds = LaunchedDS("t1", k)
        /\ held = AllocatedHeld("t1", 0, k)
    /\ InitRest

NextLaunch ==
    \/ \E th \in Serial :
        \/ \E id \in InstanceIDs : CallLaunch(th, id, "t1")
        \/ StepAddInstanceCache(th)
        \/ StepAddInstanceTenant(th)
        \/ \E id \in TeardownIDs : CallDeleteInstance(th, id)
        \/ \E id \in TeardownIDs, reason \in LaunchFailureReasons :
              CallStartFailure(th, id, reason)
        \/ StepStartFailureInstance(th)
        \/ StepDeleteInstanceLastStat(th)
        \/ StepDeleteInstanceCache(th)
        \/ StepDeleteInstanceTenant(th)
        \/ StepRemoveInstance(th)
        \/ StepReleaseTenantIPCache(th)
        \/ StepReleaseTenantIPStore(th)
        \/ StepLogEvent(th)
    \/ \E j \in 1..MaxOps : RunStoreJob(j)

SpecLaunch == InitLaunch /\ [][NextLaunch]_vars

\* the host indices claimed across the subnets of a cached tenant
ClaimedSlots(d, tenantID) ==
    {<<s, h>> \in (DOMAIN d.tenants[tenantID].network) \X (0..ByteMax) :
        BoolAt(d.tenants[tenantID].network[s], h)}

\* the live instances of a tenant that have an address
AddressedInstances(d, tenantID) ==
    {id \in DOMAIN d.instances :
        d.instances[id].TenantID = tenantID /\ d.instances[id].IPAddress # NilIP}

\* C21: after any sequence of complete launches and teardowns of a tenant
\* (DeleteInstance, or a StartFailure whose reason deletes the instance),
\* the number of host indices claimed across the tenant's subnets equals
\* the number of its live instances that have an address.
C21_ClaimedEqualsLive ==
    (~panicked /\ NoCallInProgress) =>
        Cardinality(ClaimedSlots(ds, "t1")) = Cardinality(AddressedInstances(ds, "t1"))

\* a launch that followed a teardown has completed, the tenant owns two
\* subnets, and an instance launched before the start is gone
C21_Witness ==
    /\ ~panicked
    /\ ret.op = "Launch" /\ ret.err = ""
    /\ prev.op \in {"DeleteInstance", "StartFailure"} /\ prev.err = ""
    /\ Len(ds.tenants["t1"].subnets) = 2
    /\ LaunchedID(FirstHost) \notin DOMAIN ds.instances

-----------------------------------------------------------------------------
(* SpecStore: the cache and the persistent store.  The store calls a call *)
(* makes synchronously are steps of the call, the ones it starts with go   *)
(* are queued in jobs and run later, in any order.  ReleaseTenantIP,       *)
(* AddInstance and DeleteInstance run                                      *)
(* section by section in the goroutines of Threads.                        *)

\* the instances added: new ones of t1 carrying an address t1 holds
StoreInstances ==
    {LaunchInstance(id, "t1", e[2]) : id \in InstanceIDs, e \in {h \in held : h[1] = "t1"}}

\* t1 holds one address, claimed in the store as in memory
InitStore ==
    /\ AllocatedStep("t1", 0, 1)
    /\ ds = AllocatedDS("t1", 0, 1)
    /\ held = AllocatedHeld("t1", 0, 1)
    /\ panicked = FALSE /\ ret = NoCall /\ prev = NoCall
    /\ thr = [th \in Threads |-> Idle] /\ chans = EmptyMap /\ locks = EmptyMap
    /\ jobs = <<>> /\ uuid = 0 /\ now = 0 /\ events = <<>>
    /\ db = StoreOf(ds)

NextStore ==
    \/ \E th \in Threads :
        \/ CallAllocateTenantIP(th, "t1")
        \/ \E e \in held : CallReleaseTenantIP(th, e[1], e[2])
        \/ \E instance \in StoreInstances : CallAddInstance(th, instance)
        \/ StepAddInstanceCache(th)
        \/ StepAddInstanceTenant(th)
        \/ \E id \in InstanceIDs : CallDeleteInstance(th, id)
        \/ StepDeleteInstanceLastStat(th)
        \/ StepDeleteInstanceCache(th)
        \/ StepDeleteInstanceTenant(th)
        \/ StepRemoveInstance(th)
        \/ StepReleaseTenantIPCache(th)
        \/ StepReleaseTenantIPStore(th)
        \/ StepLogEvent(th)
    \/ \E j \in 1..MaxOps : RunStoreJob(j)

SpecStore == InitStore /\ [][NextStore]_vars

\* every store call issued has completed and no call is in progress
Quiescent == ~panicked /\ jobs = <<>> /\ NoCallInProgress

\* C22: once every issued persistence write has completed and no operation
\* is in progress, an instance is in the persistent store iff it is in
\* ds.instances and an address is claimed in the persistent store iff it is
\* claimed in memory.
C22_StoreFollowsCache ==
    Quiescent =>
        /\ db.instances = DOMAIN ds.instances
        /\ db.claimed = ClaimedInCache(ds)

-----------------------------------------------------------------------------
(* SpecStoreCalls: the lock calls of an operation together with the calls  *)
(* it makes to the persistent store on its own goroutine, in program       *)
(* order.  <<"Store", f>> is the synchronous call ds.db.f(...); a call     *)
(* started with go is not on the goroutine's path and is left out.         *)

Store(f) == << <<"Store", f>> >>

\* the lock calls of a sequence of steps
LockCallsOf(steps) == SelectSeq(steps, LAMBDA c : c[1] # "Store")

\* AddTenant: ds.db.addTenant, getTenant, which reads the store when the
\* tenant is not cached (hit = FALSE), the tenant section
AddTenantSteps(hit) ==
    Store("addTenant") \o RSec("tenants")
    \o (IF hit THEN <<>> ELSE Store("getTenantNoCache"))
    \o Sec("tenants")

AddLimitSteps(dbOK) == Store("addLimit") \o AddLimitLocks(dbOK)

AddCNCIIPSteps(found) ==
    Sec("tenants")
    \o (IF found THEN Store("updateTenant") \o Sec("cnciAdded") ELSE <<>>)

\* AddTenantCNCI and removeTenantCNCI
TenantCNCISteps(found) ==
    Sec("tenants") \o (IF found THEN Store("updateTenant") ELSE <<>>)

\* ReleaseTenantIP returns before the lock and the store call for an
\* address that does not parse
ReleaseTenantIPSteps(parses) ==
    IF parses THEN ReleaseTenantIPLocks(TRUE) \o Store("releaseTenantIP") ELSE <<>>

\* DeleteInstance: deleteInstance, then the event when ReleaseTenantIP
\* returned no error; released: the store released the address
DeleteInstanceSteps(onNode, parses, released) ==
    Sec("instanceLastStat") \o Sec("instances") \o Sec("tenants")
    \o (IF onNode THEN Sec("nodes") ELSE <<>>)
    \o Store("removeInstance")
    \o ReleaseTenantIPSteps(parses)
    \o (IF parses /\ released THEN Store("logEvent") ELSE <<>>)

CreateStorageAttachmentSteps == Sec("attach") \o Store("createStorageAttachment")

DeleteStorageAttachmentSteps(found) ==
    Sec("attach") \o (IF found THEN Store("deleteStorageAttachment") ELSE <<>>)

\* the new volumes of updateStorageAttachments: VolumeKinds, and "failed"
\* for one whose attachment the store did not create
NewVolumeKinds == VolumeKinds \cup {"failed"}

\* the volumes among news whose state is set
Created(news) == SelectSeq(news, LAMBDA k : k # "failed")

\* updateStorageAttachments attaching the volumes news and detaching the
\* volumes olds: the attachment of a new volume is written to the store
\* inside the attach section, before the volume's state is changed, and
\* the loop goes on to the next volume when the store fails
UpdateStorageAttachmentsSteps(news, olds) ==
    LET volume(k) ==
            GetBlockDeviceLocks
            \o (IF k = "missing" THEN <<>> ELSE UpdateBlockDeviceLocks(k = "cached"))
        attach[i \in 0..Len(news)] ==
            IF i = 0 THEN <<>>
            ELSE attach[i - 1] \o Store("createStorageAttachment")
                 \o (IF news[i] = "failed" THEN <<>> ELSE volume(news[i]))
        detach[i \in 0..Len(olds)] ==
            IF i = 0 THEN <<>> ELSE detach[i - 1] \o volume(olds[i])
    IN  << <<"Lock", "attach">> >> \o attach[Len(news)] \o detach[Len(olds)]
        \o << <<"Unlock", "attach">> >>

AddNodeStatSteps == AddNodeStatLocks \o Store("addNodeStatDB")

\* addInstanceStats for one statistic; known: the instance is in
\* ds.instances
AddInstanceStatsSteps(known, news, olds) ==
    Sec("instanceLastStat")
    \o << <<"Lock", "instances">> >>
    \o (IF known THEN Sec("nodes") ELSE <<>>)
    \o << <<"Unlock", "instances">> >>
    \o UpdateStorageAttachmentsSteps(news, olds)
    \o Store("addInstanceStatsDB")

\* the volumes of the store-call specification: at most one new, at most
\* one old
NewShapes == {<<>>} \cup {<<k>> : k \in NewVolumeKinds}

OldShapes == {<<>>} \cup {<<k>> : k \in VolumeKinds}

\* the operations that call the store synchronously
StoreScripts ==
    {[op |-> "AddTenant", steps |-> AddTenantSteps(hit)] : hit \in BOOLEAN}
    \cup {[op |-> "createStorageAttachment", steps |-> CreateStorageAttachmentSteps],
     [op |-> "addNodeStat", steps |-> AddNodeStatSteps]}
    \cup {[op |-> "AddLimit", steps |-> AddLimitSteps(dbOK)] : dbOK \in BOOLEAN}
    \cup {[op |-> "AddCNCIIP", steps |-> AddCNCIIPSteps(found)] : found \in BOOLEAN}
    \cup {[op |-> "AddTenantCNCI", steps |-> TenantCNCISteps(found)] : found \in BOOLEAN}
    \cup {[op |-> "ReleaseTenantIP", steps |-> ReleaseTenantIPSteps(TRUE)]}
    \cup {[op |-> "DeleteInstance", steps |-> DeleteInstanceSteps(onNode, parses, released)] :
             onNode \in BOOLEAN, parses \in BOOLEAN, released \in BOOLEAN}
    \cup {[op |-> "deleteStorageAttachment", steps |-> DeleteStorageAttachmentSteps(found)] :
             found \in BOOLEAN}
    \cup {[op |-> "updateStorageAttachments",
           steps |-> UpdateStorageAttachmentsSteps(news, olds)] :
             news \in NewShapes, olds \in OldShapes}
    \cup {[op |-> "addInstanceStats", steps |-> AddInstanceStatsSteps(known, news, <<>>)] :
             known \in BOOLEAN, news \in NewShapes}

\* without the store calls the steps are the lock calls of SpecLocks
StepsMatchLocks ==
    /\ \A dbOK \in BOOLEAN : LockCallsOf(AddLimitSteps(dbOK)) = AddLimitLocks(dbOK)
    /\ \A found \in BOOLEAN : LockCallsOf(AddCNCIIPSteps(found)) = AddCNCIIPLocks(found)
    /\ \A parses \in BOOLEAN :
          LockCallsOf(ReleaseTenantIPSteps(parses)) = ReleaseTenantIPLocks(parses)
    /\ \A onNode \in BOOLEAN, parses \in BOOLEAN, released \in BOOLEAN :
          LockCallsOf(DeleteInstanceSteps(onNode, parses, released))
              = DeleteInstanceLocks(onNode, parses)
    /\ \A news \in NewShapes, olds \in OldShapes, known \in BOOLEAN :
          /\ LockCallsOf(UpdateStorageAttachmentsSteps(news, olds))
                = UpdateStorageAttachmentsLocks(Created(news) \o olds)
          /\ LockCallsOf(AddInstanceStatsSteps(known, news, olds))
                = AddInstanceStatsLocks(<<[known |-> known, vols |-> Created(news) \o olds]>>)
    /\ LockCallsOf(AddNodeStatSteps) = AddNodeStatLocks

InitStoreCalls == StepsMatchLocks /\ InitLocks

\* the call to the store returns
StepStore(th) ==
    /\ NextCall(th)[1] = "Store"
    /\ thr' = Advance(th, thr[th].stack)
    /\ UNCHANGED <<ds, panicked, held, ret, prev, chans, locks, jobs, uuid, now, events, db>>

NextStoreCalls ==
    \E th \in Threads :
        \/ \E script \in StoreScripts : CallLocked(th, script)
        \/ StepAcquire(th)
        \/ StepBlock(th)
        \/ StepRelease(th)
        \/ StepStore(th)

SpecStoreCalls == InitStoreCalls /\ [][NextStoreCalls]_vars

\* the operations allowed to call the store inside a lock section
SynchronousByDesign == {"AddTenant", "AddLimit"}

\* C23: apart from tenant creation and limit updates, no operation calls
\* the persistent store synchronously while it holds a map lock.
C23_NoStoreCallUnderLock ==
    \A th \in Threads :
        (NextCall(th)[1] = "Store" /\ thr[th].op \notin SynchronousByDesign)
            => thr[th].stack = <<>>

-----------------------------------------------------------------------------
(* SpecNotFound: the operations that look an entity up by its ID, on IDs   *)
(* that are cached and on IDs that are not, called one after the other.    *)

\* t1 with its CNCI and the device v1, attached to i1 or not
InitNotFound ==
    /\ held = {}
    /\ LET d0 == AddTenant(EmptyDS, EmptyStore, "t1", TestMAC, TRUE).ds
           d1 == AddTenantCNCI(d0, "t1", CNCIIDs["t1"], CNCIMACs["t1"]).ds
           d2 == AddBlockDevice(d1, [ID |-> "v1", TenantID |-> "t1", State |-> Available]).ds
           c == CreateStorageAttachment(d2, 0, "i1", "v1", TRUE)
       IN  \/ ds = d2 /\ uuid = 0
           \/ ds = c.ds /\ uuid = c.uuid
    /\ db = StoreOf(ds)
    /\ panicked = FALSE /\ ret = NoCall /\ prev = NoCall
    /\ thr = [th \in Threads |-> Idle] /\ chans = EmptyMap /\ locks = EmptyMap
    /\ jobs = <<>> /\ now = 0 /\ events = <<>>

\* attachment IDs passed to deleteStorageAttachment
AttachmentIDs == 1..2

NextNotFound ==
    \E th \in Serial :
        \/ \E v \in VolumeIDs : CallGetBlockDevice(th, v)
        \/ \E v \in VolumeIDs :
              CallUpdateBlockDevice(th, [ID |-> v, TenantID |-> "t1", State |-> InUse])
        \/ StepCheckBlockDevice(th)
        \/ StepAddBlockDeviceGlobal(th)
        \/ StepAddBlockDeviceTenant(th)
        \/ \E v \in VolumeIDs : CallDeleteBlockDevice(th, v)
        \/ \E t \in TenantIDs : CallGetBlockDevices(th, t)
        \/ \E t \in TenantIDs : CallAddCNCIIP(th, CNCIMACs[t], "192.168.0.2")
        \/ StepPopChan(th)
        \/ StepSend(th)
        \/ \E t \in TenantIDs : CallAddTenantCNCI(th, t, CNCIIDs[t], CNCIMACs[t])
        \/ CallCreateStorageAttachment(th, "i1", "v1")
        \/ StepCreateStorageAttachmentStore(th)
        \/ \E v \in VolumeIDs : CallGetStorageAttachment(th, "i1", v)
        \/ \E ID \in AttachmentIDs : CallDeleteStorageAttachment(th, ID)
        \/ StepDeleteStorageAttachmentStore(th)

SpecNotFound == InitNotFound /\ [][NextNotFound]_vars

\* the call returned the sentinel and changed no map
NotFound(sentinel) == ret'.err = sentinel /\ ds' = Pre.ds /\ chans' = Pre.chans

\* C24: an operation on an ID that is not cached returns the entity's
\* not-found sentinel and modifies no map: ErrNoBlockData from
\* GetBlockDevice, UpdateBlockDevice and DeleteBlockDevice, ErrNoTenant from
\* GetBlockDevices, AddCNCIIP and AddTenantCNCI, ErrNoStorageAttachment from
\* getStorageAttachment and deleteStorageAttachment, a second
\* deleteStorageAttachment of the same ID included.
C24_NotFoundSentinels ==
    [][/\ \A op \in {"GetBlockDevice", "UpdateBlockDevice", "DeleteBlockDevice"} :
            (Returned(op) /\ ret'.volume \notin DOMAIN Pre.ds.blockDevices)
                => NotFound(ErrNoBlockData)
       /\ (Returned("GetBlockDevices") /\ ret'.tenant \notin DOMAIN Pre.ds.tenants)
            => NotFound(ErrNoTenant)
       /\ (/\ Returned("AddCNCIIP")
           /\ \A t \in CachedTenants(Pre.ds) : Pre.ds.tenants[t].CNCIMAC # ret'.mac)
            => NotFound(ErrNoTenant)
       /\ (Returned("AddTenantCNCI") /\ ret'.tenant \notin DOMAIN Pre.ds.tenants)
            => NotFound(ErrNoTenant)
       /\ (/\ Returned("getStorageAttachment")
           /\ <<ret'.instance, ret'.volume>> \notin DOMAIN Pre.ds.instanceVolumes)
            => NotFound(ErrNoStorageAttachment)
       /\ (Returned("deleteStorageAttachment") /\ ret'.id \notin DOMAIN Pre.ds.attachments)
            => NotFound(ErrNoStorageAttachment)
       /\ (/\ Returned("deleteStorageAttachment")
           /\ ret.op = "deleteStorageAttachment" /\ ret.id = ret'.id)
            => NotFound(ErrNoStorageAttachment)]_vars

\* an attachment was deleted and the second deleteStorageAttachment of its
\* ID returned ErrNoStorageAttachment; before that an unknown device was
\* looked up
C24_Witness ==
    /\ ret.op = "deleteStorageAttachment" /\ ret.err = ErrNoStorageAttachment
    /\ prev.op = "deleteStorageAttachment" /\ prev.err = "" /\ prev.id = ret.id
    /\ ret.n = 3

-----------------------------------------------------------------------------
(* SpecTeardown: launches and DeleteInstance of tenant t1 with the store   *)
(* calls they make, from one launched instance and from LaunchedCount.     *)

InitTeardown ==
    /\ \E k \in {1, LaunchedCount} :
        /\ LaunchedStep("t1", k)
        /\ ds = LaunchedDS("t1", k)
        /\ held = AllocatedHeld("t1", 0, k)
    /\ InitRest

NextTeardown ==
    \/ \E th \in Serial :
        \/ CallLaunch(th, "i1", "t1")
        \/ StepAddInstanceCache(th)
        \/ StepAddInstanceTenant(th)
        \/ \E id \in {"i1", LaunchedID(FirstHost)} : CallDeleteInstance(th, id)
        \/ StepDeleteInstanceLastStat(th)
        \/ StepDeleteInstanceCache(th)
        \/ StepDeleteInstanceTenant(th)
        \/ StepRemoveInstance(th)
        \/ StepReleaseTenantIPCache(th)
        \/ StepReleaseTenantIPStore(th)
        \/ StepLogEvent(th)
        \/ CallAllocateTenantIP(th, "t1")
    \/ \E j \in 1..2 : RunStoreJob(j)

SpecTeardown == InitTeardown /\ [][NextTeardown]_vars

\* the addresses the next k calls of AllocateTenantIP(tenantID) return
RECURSIVE NextAddresses(_, _, _)
NextAddresses(d, tenantID, k) ==
    IF k = 0 THEN {}
    ELSE LET r == AllocateTenantIP(d, tenantID)
         IN  IF r.panic \/ r.err # "" THEN {}
             ELSE {IPString(r.ip)} \cup NextAddresses(r.ds, tenantID, k - 1)

\* the call just completed is DeleteInstance of a live instance whose
\* address AllocateTenantIP handed to its tenant
DeleteLaunchedStep ==
    /\ Returned("DeleteInstance") /\ ~panicked' /\ ret'.err = ""
    /\ ret'.id \in DOMAIN Pre.ds.instances
    /\ <<ret'.tenant, ret'.ip>> \in Pre.held

\* the slot of the deleted instance is unclaimed in memory and exactly its
\* release went to the store
ReleasedBothSides ==
    /\ ~ClaimedInMemory(ds', ret'.tenant, ret'.ip)
    /\ \E j \in 1..Len(ret'.calls) :
          /\ ret'.calls[j] = [op |-> "releaseTenantIP", tenant |-> ret'.tenant,
                              subnet |-> Slot(ret'.ip)[1], rest |-> Slot(ret'.ip)[2]]
          /\ \A q \in 1..Len(ret'.calls) :
                ret'.calls[q].op = "releaseTenantIP" => q = j

\* C25: after DeleteInstance of an instance whose address came from
\* AllocateTenantIP, the slot of the address is unclaimed in the tenant's
\* table, a release for exactly that slot has been issued to the store, and
\* a later AllocateTenantIP of the tenant returns the address again.
C25_DeletedAddressReusable ==
    [][DeleteLaunchedStep =>
          /\ ReleasedBothSides
          /\ ret'.ip \in NextAddresses(ds', ret'.tenant, MaxRealloc)]_vars

\* the part of C25 that holds: the slot is unclaimed and released
C25_DeletedAddressReleased ==
    [][DeleteLaunchedStep => ReleasedBothSides]_vars

\* why a slot given back in a subnet with 253 keys never comes back: no
\* call removes a key of a host table, and AllocateTenantIP returns an
\* address of an owned subnet only if its table has fewer than 253 keys
C25_FullSubnetNeverReused ==
    [][/\ \A s \in DOMAIN ds.tenants["t1"].network :
            ~panicked' =>
                /\ s \in DOMAIN ds'.tenants["t1"].network
                /\ HostsLen(ds'.tenants["t1"].network, s)
                      >= HostsLen(ds.tenants["t1"].network, s)
       /\ (ret'.n # ret.n /\ ret'.op \in {"AllocateTenantIP", "Launch"} /\ ret'.ip # NilIP
           /\ Slot(ret'.ip)[1] \in DOMAIN Pre.ds.tenants["t1"].network)
            => HostsLen(Pre.ds.tenants["t1"].network, Slot(ret'.ip)[1]) < HostsPerSubnet]_vars

-----------------------------------------------------------------------------
(* SpecFill: a fresh tenant that only allocates, as testAllocateTenantIPs  *)
(* does; held is the set of addresses handed out so far.                   *)

\* <<n, k>>: the tenant has filled n subnets and holds k addresses of the next
StartsFill == (0..2) \X ((HostsPerSubnet - 33)..(HostsPerSubnet - 1))

InitFill ==
    /\ \E s \in StartsFill :
          /\ AllocatedStep("t1", s[1], s[2])
          /\ ds = AllocatedDS("t1", s[1], s[2])
          /\ held = AllocatedHeld("t1", s[1], s[2])
    /\ InitRest

NextFill ==
    \/ \E th \in Serial : CallAllocateTenantIP(th, "t1")
    \/ \E j \in 1..MaxOps : RunStoreJob(j)

SpecFill == InitFill /\ [][NextFill]_vars

\* nIPs: the number of AllocateTenantIP calls so far
CallsSoFar == Cardinality(held)

\* the claimed hosts of the i-th subnet of the tenant's list, i from 0
ClaimedInNth(d, id, i) == ClaimedCount(d.tenants[id].network[d.tenants[id].subnets[i + 1]])

\* C26: after n >= 1 consecutive AllocateTenantIP calls of a fresh tenant
\* the tenant owns n / 253 + 1 subnets, every subnet i with (i + 1) * 253 < n
\* holds 253 claimed hosts and every other owned subnet holds n mod 253.
C26_SubnetFill ==
    (~panicked /\ CallsSoFar >= 1) =>
        /\ Len(ds.tenants["t1"].subnets) = (CallsSoFar \div HostsPerSubnet) + 1
        /\ \A i \in 0..(Len(ds.tenants["t1"].subnets) - 1) :
              ClaimedInNth(ds, "t1", i) =
                  IF (i + 1) * HostsPerSubnet < CallsSoFar THEN HostsPerSubnet
                  ELSE CallsSoFar % HostsPerSubnet

\* what holds instead: the tenant owns (n - 1) / 253 + 1 subnets, every
\* subnet i with (i + 1) * 253 <= n holds 253 claimed hosts and the one
\* after them holds n mod 253
C26_SubnetFillExact ==
    (~panicked /\ CallsSoFar >= 1) =>
        /\ Len(ds.tenants["t1"].subnets) = ((CallsSoFar - 1) \div HostsPerSubnet) + 1
        /\ \A i \in 0..(Len(ds.tenants["t1"].subnets) - 1) :
              ClaimedInNth(ds, "t1", i) =
                  IF (i + 1) * HostsPerSubnet <= CallsSoFar THEN HostsPerSubnet
                  ELSE CallsSoFar % HostsPerSubnet

\* the call that handed out the 506th address has returned: the tenant
\* owns two subnets, both full
C26_Witness ==
    /\ ~panicked
    /\ ret.op = "AllocateTenantIP" /\ ret.err = ""
    /\ CallsSoFar = 2 * HostsPerSubnet
    /\ Len(ds.tenants["t1"].subnets) = 2
    /\ ClaimedInNth(ds, "t1", 1) = HostsPerSubnet

-----------------------------------------------------------------------------
(* SpecDevices: concurrent goroutines in the block device operations, one  *)
(* critical section at a time.  AddBlockDevice is two sections, bdLock and *)
(* then tenantsLock; UpdateBlockDevice checks under bdLock.RLock and then  *)
(* calls AddBlockDevice; DeleteBlockDevice is one section under both       *)
(* locks; the volume failure handlers call GetBlockDevice, then            *)
(* UpdateBlockDevice, then log.                                            *)

\* the devices of the calls: each volume has one owner
OwnedDevices ==
    {[ID |-> v, TenantID |-> IF v = "v1" THEN "t1" ELSE "t2", State |-> s] :
        v \in VolumeIDs, s \in {Available, InUse}}

\* t1 and t2 cached, the instance i1 of t1, and v1 added or not
InitDevices ==
    /\ held = AllocatedHeld("t1", 0, 1)
    /\ LET d0 == AddTenant(AllocatedDS("t1", 0, 1), EmptyStore, "t2", TestMAC, TRUE).ds
           d1 == AddInstance(d0, LaunchInstance("i1", "t1",
                                    IPString(IPv4(IPPrefix, SubnetFirstByte, 0, FirstHost)))).ds
           v1 == [ID |-> "v1", TenantID |-> "t1", State |-> InUse]
       IN  ds = d1 \/ ds = AddBlockDevice(d1, v1).ds
    /\ panicked = FALSE /\ ret = NoCall /\ prev = NoCall
    /\ thr = [th \in Threads |-> Idle]
    /\ chans = EmptyMap /\ locks = EmptyMap
    /\ jobs = <<>> /\ uuid = 0 /\ now = 0 /\ events = <<>> /\ db = StoreOf(ds)

NextDevices ==
    \E th \in Threads :
        \/ \E device \in OwnedDevices : CallAddBlockDevice(th, device)
        \/ \E data \in OwnedDevices : CallUpdateBlockDevice(th, data)
        \/ \E v \in VolumeIDs : CallDeleteBlockDevice(th, v)
        \/ \E op \in VolumeFailureOps : CallVolumeFailure(th, op, "i1", "v1")
        \/ StepGetBlockDevice(th)
        \/ StepCheckBlockDevice(th)
        \/ StepAddBlockDeviceGlobal(th)
        \/ StepAddBlockDeviceTenant(th)
        \/ StepGetOwner(th)
        \/ StepLogEvent(th)

SpecDevices == InitDevices /\ [][NextDevices]_vars

\* no block device operation is in progress
NoDeviceCall == ~panicked /\ \A th \in Threads : thr[th].pc = "idle"

\* a device is in the global map iff it is in the device map of the tenant
\* its TenantID names, there with the same data, and in no other tenant's
DeviceMapsAgree(d) ==
    /\ \A ID \in DOMAIN d.blockDevices :
          LET dev == d.blockDevices[ID] IN
          /\ TenantCached(d, dev.TenantID)
          /\ ID \in DOMAIN d.tenants[dev.TenantID].devices
          /\ d.tenants[dev.TenantID].devices[ID] = dev
    /\ \A t \in CachedTenants(d) :
          \A ID \in DOMAIN d.tenants[t].devices :
              ID \in DOMAIN d.blockDevices /\ d.blockDevices[ID].TenantID = t

\* goroutine th, in UpdateBlockDevice, writes its device to the global map
UpdateInserts(th) ==
    /\ thr[th].pc = "bd" /\ thr'[th].pc = "tenants"
    /\ thr[th].op # "AddBlockDevice"

\* C27: whenever no block device operation is in progress, a device ID is
\* in the global block device map iff it is in the device map of the tenant
\* named by its TenantID and of no other tenant, with identical data (a
\* device removed by DeleteBlockDevice is then in neither map).
C27_MapsAgreeWhenIdle == NoDeviceCall => DeviceMapsAgree(ds)

\* C27, the last part: an update that raced with DeleteBlockDevice does not
\* insert the device again
C27_NoReinsertAfterDelete ==
    [][\A th \in Threads :
          UpdateInserts(th) => thr[th].data.ID \in DOMAIN ds.blockDevices]_vars

-----------------------------------------------------------------------------
(* The shape of the addresses handed out (Spec) *)

\* ip is 172.b0.b1.h with <<b0, b1>> the bytes of a subnet of the tenant's
\* list in d, 16 <= b0 <= 31, and 2 <= h <= 254
WellFormedAddress(d, id, ip) ==
    /\ Len(ip) = 4
    /\ ip[1] = IPPrefix
    /\ ip[2] \in SubnetFirstByte..SubnetLastByte
    /\ ip[3] \in 0..ByteMax
    /\ \E j \in 1..Len(d.tenants[id].subnets) :
          d.tenants[id].subnets[j] = BigEndianUint16(<<ip[2], ip[3]>>)
    /\ ip[4] \in FirstHost..(ByteMax - 1)

\* no table claims host 0, 1 or 255, or more than 253 hosts
HostTablesInRange(d) ==
    \A id \in CachedTenants(d) :
        \A s \in DOMAIN d.tenants[id].network :
            /\ d.tenants[id].network[s].on \cap {0, 1, ByteMax} = {}
            /\ ClaimedCount(d.tenants[id].network[s]) <= HostsPerSubnet

\* C28: after any sequence of allocations and releases, every address
\* AllocateTenantIP returns is 172.b0.b1.h with <<b0, b1>> the big-endian
\* bytes of a subnet of the tenant's list, 16 <= b0 <= 31 and 2 <= h <= 254;
\* hosts 0, 1 and 255 are never claimed, no subnet holds more than 253
\* claimed hosts, and "rand out of host numbers" is never returned.
C28_AddressShape ==
    [][/\ \A id \in TenantIDs :
            AllocStep(id) =>
                /\ ret'.err # "rand out of host numbers"
                /\ (~panicked' /\ ret'.err = "") => WellFormedAddress(ds', id, ret'.ip)
       /\ ~panicked' => HostTablesInRange(ds')]_vars

\* an address given back was handed out again, and the allocation after it
\* returned host 254, the last of its subnet
C28_Witness ==
    /\ ~panicked /\ ret.n = 3
    /\ ret.op = "AllocateTenantIP" /\ Len(ret.ip) = 4 /\ ret.ip[4] = ByteMax - 1
    /\ prev.op = "AllocateTenantIP" /\ Len(prev.ip) = 4 /\ prev.ip[4] = FirstHost

----------------------------------------------------------------------------
(* SpecProbe: two tenants at the end of the probing range.  Tenant t1 owns *)
(* all but the last one or two subnets and one or two free hosts in its    *)
(* newest one; tenant t2 is cached and owns nothing.                       *)

StartsProbe == {<<SubnetProbeCount - 2, HostsPerSubnet - 1>>,
                <<SubnetProbeCount - 1, HostsPerSubnet - 2>>,
                <<SubnetProbeCount - 1, HostsPerSubnet - 1>>}

\* addresses in the last two subnets of the range
ProbeReleases == {<<172, SubnetLastByte, ByteMax, FirstHost>>,
                  <<172, SubnetLastByte, ByteMax - 1, FirstHost + 1>>}

InitProbe ==
    /\ \E s \in StartsProbe :
          /\ AllocatedStep("t1", s[1], s[2])
          /\ ds = AddTenant(AllocatedDS("t1", s[1], s[2]), EmptyStore, "t2", TestMAC, TRUE).ds
    /\ held = {}
    /\ InitRest

NextProbe ==
    \/ \E th \in Serial :
        \/ \E id \in TenantIDs : CallAllocateTenantIP(th, id)
        \/ \E id \in TenantIDs, ip \in ProbeReleases : CallReleaseTenantIP(th, id, ip)
        \/ StepReleaseTenantIPCache(th)
        \/ StepReleaseTenantIPStore(th)
    \/ \E j \in 1..MaxOps : RunStoreJob(j)

SpecProbe == InitProbe /\ [][NextProbe]_vars

\* the indices the probing loop reads in ds.allSubnets, in order: from
\* {16, 0} up to the first one not claimed, or up to {31, 255}
ProbeVisits(allSubnets) ==
    LET free(p) == ~SubnetClaimed(allSubnets, BigEndianUint16(SubnetProbeBytes(p)))
        last == IF \A p \in 0..(SubnetProbeCount - 1) : ~free(p)
                THEN SubnetProbeCount - 1
                ELSE CHOOSE p \in 0..(SubnetProbeCount - 1) :
                         free(p) /\ \A q \in 0..(p - 1) : ~free(q)
    IN  [j \in 1..(last + 1) |-> BigEndianUint16(SubnetProbeBytes(j - 1))]

\* every index of the probing range is in the process-wide set
RangeClaimed(allSubnets) ==
    \A p \in 0..(SubnetProbeCount - 1) :
        BigEndianUint16(SubnetProbeBytes(p)) \in allSubnets

\* the subnet lists and allocation tables of all tenants
TenantNetworks(d) ==
    [id \in CachedTenants(d) |-> <<d.tenants[id].subnets, d.tenants[id].network>>]

\* the lock script takes x once and gives it back as its last step
ReleasedAtReturn(steps, x) ==
    /\ Len(steps) > 0 /\ steps[Len(steps)] = <<"Unlock", x>>
    /\ Cardinality({j \in 1..Len(steps) : steps[j] = <<"Lock", x>>}) = 1
    /\ Cardinality({j \in 1..Len(steps) : steps[j] = <<"Unlock", x>>}) = 1

\* C29: when no subnet of the requesting tenant passes the room test and
\* every index 16.0 .. 31.255 is in the process-wide claimed set,
\* AllocateTenantIP returns "Out of subnets" with the tenant lock released
\* and leaves the claimed set and every tenant's subnet list and allocation
\* table as they were; the probe reads each index of the range once, in
\* ascending order.
C29_OutOfSubnets ==
    [][\A id \in TenantIDs :
          (/\ AllocStep(id)
           /\ PickSubnet(ds.tenants[id].network, SortInts(ds.tenants[id].subnets)) = 0
           /\ RangeClaimed(ds.allSubnets))
          => /\ ~panicked'
             /\ ret'.err = "Out of subnets" /\ ret'.ip = NilIP
             /\ ReleasedAtReturn(AllocateTenantIPLocks, "tenants")
             /\ ds'.allSubnets = ds.allSubnets
             /\ TenantNetworks(ds') = TenantNetworks(ds)
             /\ held' = held
             /\ LET v == ProbeVisits(ds.allSubnets) IN
                   /\ Len(v) = SubnetProbeCount
                   /\ \A j \in 1..(Len(v) - 1) : v[j] < v[j + 1]
                   /\ v[1] = BigEndianUint16(<<SubnetFirstByte, 0>>)
                   /\ v[Len(v)] = BigEndianUint16(<<SubnetLastByte, ByteMax>>)]_vars

\* C29 witness: tenant t2, which owns no subnet, was refused while tenant
\* t1 owns the whole range and still has a free host
C29_Witness ==
    /\ ret.op = "AllocateTenantIP" /\ ret.tenant = "t2" /\ ret.err = "Out of subnets"
    /\ ds.tenants["t2"].subnets = <<>>
    /\ Cardinality(ds.allSubnets) = SubnetProbeCount
    /\ Cardinality(FullSubnets(ds, "t1")) = SubnetProbeCount - 1

----------------------------------------------------------------------------
(* SpecAttach: the attachment table of the persistent store next to the    *)
(* attachment cache, under HandleStats, createStorageAttachment,           *)
(* deleteStorageAttachment and DeleteBlockDevice.  Tenant t1 owns the      *)
(* devices v1 and v2; the store accepts every call.  The calls are made    *)
(* one after the other.                                                    *)

InitAttach ==
    /\ held = {}
    /\ LET d0 == AddTenant(EmptyDS, EmptyStore, "t1", TestMAC, TRUE).ds
           d1 == AddBlockDevice(d0, [ID |-> "v1", TenantID |-> "t1", State |-> Available]).ds
           d2 == AddBlockDevice(d1, [ID |-> "v2", TenantID |-> "t1", State |-> Available]).ds
           c == CreateStorageAttachment(d2, 0, "i2", "v2", TRUE)
       IN  \/ ds = d2 /\ uuid = 0
           \/ ds = c.ds /\ uuid = c.uuid
    /\ db = StoreOf(ds)
    /\ panicked = FALSE /\ ret = NoCall /\ prev = NoCall
    /\ thr = [th \in Threads |-> Idle] /\ chans = EmptyMap /\ locks = EmptyMap
    /\ jobs = <<>> /\ now = 0 /\ events = <<>>

NextAttach ==
    \/ \E th \in Serial :
        \/ \E stat \in StatInputsVol : CallHandleStats(th, stat, {})
        \/ StepNodeLastStat(th)
        \/ StepInstanceLastStat(th)
        \/ StepInstanceNode(th)
        \/ StepAttachLock(th)
        \/ StepAttachNew(th)
        \/ StepAttachStore(th)
        \/ StepAttachGet(th)
        \/ StepAttachStale(th)
        \/ StepAttachDelete(th)
        \/ StepCheckBlockDevice(th)
        \/ StepAddBlockDeviceGlobal(th)
        \/ StepAddBlockDeviceTenant(th)
        \/ \E v \in VolumeIDs : CallDeleteBlockDevice(th, v)
        \/ \E i \in InstanceIDs, v \in VolumeIDs : CallCreateStorageAttachment(th, i, v)
        \/ StepCreateStorageAttachmentStore(th)
        \/ \E ID \in AttachmentIDs : CallDeleteStorageAttachment(th, ID)
        \/ StepDeleteStorageAttachmentStore(th)

SpecAttach == InitAttach /\ [][NextAttach]_vars

\* the call just completed is a HandleStats that did not panic, started
\* with the store holding exactly the cached attachments
AttachStep ==
    /\ ret'.n # ret.n /\ ret'.op = "HandleStats" /\ ~panicked'
    /\ Pre.db.attachments = DOMAIN Pre.ds.attachments

\* C30: an attachment that updateStorageAttachments removes from the cache
\* is deleted from the persistent store too, so after the call the store
\* holds exactly the attachment IDs of the cache.
C30_StoreFollowsAttachments ==
    [][AttachStep =>
          /\ \A ID \in DOMAIN Pre.ds.attachments \ DOMAIN ds'.attachments :
                 ID \notin db'.attachments
          /\ db'.attachments = DOMAIN ds'.attachments]_vars

\* what the calls do give: every attachment the call leaves in the cache
\* is in the store, and the call deletes nothing from the store
C30_CachedAreStored ==
    [][AttachStep =>
          /\ DOMAIN ds'.attachments \subseteq db'.attachments
          /\ Pre.db.attachments \subseteq db'.attachments
          /\ \A j \in 1..Len(ret'.calls) : ret'.calls[j].op # "deleteStorageAttachment"]_vars

\* createStorageAttachment and deleteStorageAttachment keep the store equal
\* to the cache
C30_DirectCallsAgree ==
    [][(/\ ret'.n # ret.n
        /\ ret'.op \in {"createStorageAttachment", "deleteStorageAttachment"}
        /\ Pre.db.attachments = DOMAIN Pre.ds.attachments)
       => db'.attachments = DOMAIN ds'.attachments]_vars

----------------------------------------------------------------------------
(* SpecNodes: the instance indices of two nodes.  Tenant t1 is cached and  *)
(* holds two addresses; the nodes n1 and n2 have both reported their load. *)
(* The calls are made one after the other.                                 *)

NodeIDs == {"n1", "n2"}

\* a statistics report of the node nodeID
NodeStatOf(nodeID, load, instances) ==
    [NodeStat(load, instances) EXCEPT !.NodeUUID = nodeID]

\* the reports: one node, no instance or one of them
StatInputsNodes ==
    {NodeStatOf(n, 0, instances) :
        n \in NodeIDs,
        instances \in {<<>>} \cup {<<InstanceStat(id, 1, <<>>)>> : id \in InstanceIDs}}

InitNodes ==
    /\ AllocatedStep("t1", 0, 2)
    /\ held = AllocatedHeld("t1", 0, 2)
    /\ ds = AddNodeStat(AddNodeStat(AllocatedDS("t1", 0, 2), NodeStatOf("n1", 0, <<>>)),
                         NodeStatOf("n2", 0, <<>>))
    /\ InitRest

NextNodes ==
    \/ \E th \in Serial :
        \/ \E instance \in {x \in InstanceInputs : x.TenantID = "t1"} :
              CallAddInstance(th, instance)
        \/ StepAddInstanceCache(th)
        \/ StepAddInstanceTenant(th)
        \/ \E stat \in StatInputsNodes : CallHandleStats(th, stat, {})
        \/ StepNodeLastStat(th)
        \/ StepInstanceLastStat(th)
        \/ StepInstanceNode(th)
        \/ StepAttachLock(th)
        \/ \E id \in InstanceIDs : CallDeleteInstance(th, id)
        \/ StepDeleteInstanceLastStat(th)
        \/ StepDeleteInstanceCache(th)
        \/ StepDeleteInstanceTenant(th)
        \/ StepDeleteInstanceNode(th)
        \/ StepRemoveInstance(th)
        \/ StepReleaseTenantIPCache(th)
        \/ StepReleaseTenantIPStore(th)
        \/ StepLogEvent(th)
        \/ CallDeleteNode(th, "n1")
        \/ StepDeleteNodeLast(th)
    \/ \E j \in 1..MaxOps : RunStoreJob(j) \/ RunUsageJob(j)

SpecNodes == InitNodes /\ [][NextNodes]_vars

\* the nodes whose index holds the instance
NodesOf(d, id) == {n \in DOMAIN d.nodes : id \in d.nodes[n].instances}

\* C31: between calls, an instance ID is in the index of at most one node,
\* the node its NodeID names: a report from another node takes it out of
\* the previous node's index, and after DeleteInstance it is in no index.
C31_OneNodeIndex ==
    (~panicked /\ NoCallInProgress) =>
        \A id \in InstanceIDs :
            /\ Cardinality(NodesOf(ds, id)) <= 1
            /\ \A n \in NodesOf(ds, id) :
                   id \in DOMAIN ds.instances /\ ds.instances[id].NodeID = n

\* what the code does give: the node that reported a known instance last
\* has it in its index, and DeleteInstance takes it out of that node's index
C31_LastReporterIndexed ==
    [][/\ (ret'.n # ret.n /\ ret'.op = "HandleStats" /\ ~panicked')
          => \A j \in 1..Len(ret'.stats) :
                 ret'.stats[j].InstanceUUID \in DOMAIN Pre.ds.instances
                     => /\ ret'.stats[j].InstanceUUID \in ds'.nodes[ret'.node].instances
                        /\ ds'.instances[ret'.stats[j].InstanceUUID].NodeID = ret'.node
       /\ (ret'.n # ret.n /\ ret'.op = "DeleteInstance" /\ ~panicked'
             /\ ret'.id \in DOMAIN Pre.ds.instances)
          => \A n \in DOMAIN ds'.nodes :
                 Pre.ds.instances[ret'.id].NodeID = n => ret'.id \notin ds'.nodes[n].instances]_vars

----------------------------------------------------------------------------
(* Deleting an instance that is not in ds.instances (SpecInst, SpecFail)   *)

\* the call just completed is op for an ID that was not in ds.instances
UnknownInstanceStep(op) ==
    ret'.n # ret.n /\ ret'.op = op /\ ret'.id \notin DOMAIN Pre.ds.instances

\* C32: DeleteInstance for an ID that is not in the instance map (never
\* added, or deleted before) returns an error without a run-time failure
\* and changes no usage counter, index or allocation slot.
C32_UnknownDeleteIsError ==
    [][UnknownInstanceStep("DeleteInstance")
          => ~panicked' /\ ret'.err # "" /\ ds' = Pre.ds /\ held' = Pre.held]_vars

\* the part that holds: a StartFailure that runs alone, for an ID that is
\* not in the instance map and is no tenant's CNCI, returns "Instance Not
\* Found" and changes nothing
C32_UnknownStartFailureIsError ==
    [][(/\ UnknownInstanceStep("StartFailure")
        /\ \A t \in CachedTenants(Pre.ds) : Pre.ds.tenants[t].CNCIID # ret'.id)
          => /\ ~panicked' /\ ret'.err = "Instance Not Found"
             /\ ds' = Pre.ds /\ held' = Pre.held /\ events' = Pre.events]_vars

\* the call just completed is DeleteInstance for an ID that was in
\* ds.instances
KnownDeleteStep ==
    ret'.n # ret.n /\ ret'.op = "DeleteInstance" /\ ret'.id \in DOMAIN Pre.ds.instances

\* C33: DeleteInstance of an instance that is in the instance map completes
\* without a run-time failure after any calls before it, also when
\* DeleteNode removed the node the instance names and when the instance's
\* tenant is not in the tenant cache.
C33_KnownDeleteCompletes ==
    [][KnownDeleteStep => ~panicked']_vars

\* the part that holds: the delete completes when the tenant is cached and
\* the instance names no node or a node of ds.nodes; it fails otherwise
C33_DeleteCompletesWhenPlaced ==
    [][KnownDeleteStep =>
          (~panicked' <=>
              /\ TenantCached(Pre.ds, Pre.ds.instances[ret'.id].TenantID)
              /\ Pre.ds.instances[ret'.id].NodeID \in DOMAIN Pre.ds.nodes \cup {""})]_vars

----------------------------------------------------------------------------
(* SpecRace: AddInstance, DeleteInstance and a deleting StartFailure of    *)
(* the instance i1 of tenant t1 in concurrent goroutines, one critical     *)
(* section at a time.  AddInstance is the section under instancesLock,     *)
(* then the section under tenantsLock, then go ds.db.addInstance;          *)
(* deleteInstance is the sections under instanceLastStatLock,              *)
(* instancesLock, tenantsLock and nodesLock, then the store calls and      *)
(* ReleaseTenantIP.                                                        *)

\* the instance the goroutines add
RaceInstance ==
    LaunchInstance("i1", "t1", IPString(IPv4(IPPrefix, SubnetFirstByte, 0, FirstHost)))

\* t1 holds the address of i1; i1 was added or not
InitRace ==
    /\ held = AllocatedHeld("t1", 0, 1)
    /\ \/ ds = AllocatedDS("t1", 0, 1)
       \/ ds = AddInstance(AllocatedDS("t1", 0, 1), RaceInstance).ds
    /\ db = StoreOf(ds)
    /\ panicked = FALSE /\ ret = NoCall /\ prev = NoCall
    /\ thr = [th \in Threads |-> Idle]
    /\ chans = EmptyMap /\ locks = EmptyMap
    /\ jobs = <<>> /\ uuid = 0 /\ now = 0 /\ events = <<>>

NextRace ==
    \/ \E th \in Threads :
        \/ CallAddInstance(th, RaceInstance)
        \/ CallDeleteInstance(th, "i1")
        \/ CallStartFailure(th, "i1", "FullCloud")
        \/ StepStartFailureInstance(th)
        \/ StepAddInstanceCache(th)
        \/ StepAddInstanceTenant(th)
        \/ StepDeleteInstanceLastStat(th)
        \/ StepDeleteInstanceCache(th)
        \/ StepDeleteInstanceTenant(th)
        \/ StepRemoveInstance(th)
        \/ StepReleaseTenantIPCache(th)
        \/ StepReleaseTenantIPStore(th)
        \/ StepLogEvent(th)
    \/ \E j \in 1..MaxOps : RunStoreJob(j)

SpecRace == InitRace /\ [][NextRace]_vars

\* no instance operation is in progress
NoInstanceCall == ~panicked /\ \A th \in Threads : thr[th].pc = "idle"

\* the instance is in its tenant's index, and has a last-stats record, iff
\* it is in ds.instances
InstanceIndicesAgree(d, id, tenantID) ==
    /\ id \in d.tenants[tenantID].instances <=> id \in DOMAIN d.instances
    /\ id \in DOMAIN d.instanceLastStat <=> id \in DOMAIN d.instances

\* C34: under any interleaving of AddInstance(i) with DeleteInstance(i.ID)
\* or a deleting StartFailure, once all calls have returned the instance is
\* in the tenant's index iff it is in the instance map, and it has a
\* last-stats record iff it is in the instance map.
C34_IndicesAgreeWhenIdle ==
    NoInstanceCall => InstanceIndicesAgree(ds, "i1", "t1")

\* the part that holds: calls that run one after the other leave the
\* indices in agreement (checked in SpecLaunch)
C34_IndicesAgreeSerial ==
    (~panicked /\ NoCallInProgress) =>
        \A id \in TeardownIDs : InstanceIndicesAgree(ds, id, "t1")

----------------------------------------------------------------------------
(* SpecRestart: the datastore after Init on a persistent store that holds  *)
(* tenants, and with them or not an instance, a block device and a storage *)
(* attachment.  Init makes ds.allSubnets empty and caches what the reads   *)
(* of the store return; the store returns each tenant with the subnets and *)
(* the claimed addresses it had.                                           *)

\* the keys Init gives ds.instanceVolumes: the (instance, volume) pairs of
\* the attachments loaded
LoadedLinks(attachments) ==
    {<<attachments[a].InstanceID, attachments[a].BlockID>> : a \in DOMAIN attachments}

\* Init, for what the reads of the store return (stored.instances and
\* stored.tenants with their err == nil in instancesOK and tenantsOK,
\* stored.blockDevices, stored.attachments): the datastores it can make.
\*   ds.tenants and ds.allSubnets are made empty, and so are the last
\*     stats, the usage history and the channels;
\*   ds.instances[instances[i].ID] = instances[i] when getInstances gave
\*     no error;
\*   ds.tenants[tenants[i].ID] = tenants[i] when getTenants, which finds
\*     the cache empty and reads the store, gave no error;
\*   ds.nodes gets a node for the NodeID of every instance loaded, the
\*     empty NodeID too, with nothing but its ID, and the instance in its
\*     index;
\*   ds.blockDevices and ds.attachments are what the store returned;
\*   ds.instanceVolumes[link] = key for every attachment, in the order of
\*     the map: of two attachments of one pair either ID can stay.
InitDatastore(stored) ==
    LET instances == IF stored.instancesOK THEN stored.instances ELSE EmptyMap
        tenants == IF stored.tenantsOK THEN stored.tenants ELSE EmptyMap
        nodeIDs == {instances[id].NodeID : id \in DOMAIN instances}
        nodes == [n \in nodeIDs |->
                    [NewNode EXCEPT
                        !.ID = n,
                        !.instances = {id \in DOMAIN instances : instances[id].NodeID = n}]]
        links == LoadedLinks(stored.attachments)
        volumes == {iv \in [links -> DOMAIN stored.attachments] :
                       \A link \in links :
                           /\ stored.attachments[iv[link]].InstanceID = link[1]
                           /\ stored.attachments[iv[link]].BlockID = link[2]}
    IN  {[EmptyDS EXCEPT !.tenants = tenants,
                         !.allSubnets = {},
                         !.instances = instances,
                         !.nodes = nodes,
                         !.blockDevices = stored.blockDevices,
                         !.attachments = stored.attachments,
                         !.instanceVolumes = iv] : iv \in volumes}

\* the tenants of the store: t1 as it was after n * 253 + k allocations,
\* and t2 without an address or not at all
StoredTenants(n, k, withT2) ==
    LET t1 == AllocatedDS("t1", n, k).tenants["t1"]
    IN  IF withT2 THEN MapPut(MapPut(EmptyMap, "t1", t1), "t2", NewTenant("t2", TestMAC))
        ELSE MapPut(EmptyMap, "t1", t1)

\* the device of the store: v1 of tenant t1, in use
StoredDevice == [ID |-> "v1", TenantID |-> "t1", State |-> InUse]

\* what the reads of the store return: the tenants, and when loaded the
\* instance i1 of t1 on node n1 with the first address of t1, the device
\* v1 and the attachment of v1 to i1; every read succeeds
StoreContents(n, k, withT2, loaded) ==
    [instancesOK |-> TRUE,
     instances |-> IF loaded THEN MapPut(EmptyMap, "i1", UsageInstance) ELSE EmptyMap,
     tenantsOK |-> TRUE,
     tenants |-> StoredTenants(n, k, withT2),
     blockDevices |-> IF loaded THEN MapPut(EmptyMap, "v1", StoredDevice) ELSE EmptyMap,
     attachments |-> IF loaded THEN MapPut(EmptyMap, 1, NewAttachment(1, "i1", "v1"))
                     ELSE EmptyMap]

StartsRestart == {<<0, 1>>, <<0, HostsPerSubnet - 1>>, <<1, 0>>, <<1, 1>>}

InitRestart ==
    /\ \E s \in StartsRestart, withT2 \in BOOLEAN, loaded \in BOOLEAN :
          /\ AllocatedStep("t1", s[1], s[2])
          /\ ds \in InitDatastore(StoreContents(s[1], s[2], withT2, loaded))
          /\ held = AllocatedHeld("t1", s[1], s[2])
    /\ InitRest

NextRestart ==
    \/ \E th \in Serial :
        \/ CallAddTenant(th, "t2", TRUE)
        \/ StepGetTenantNoCache(th)
        \/ StepAddTenantCache(th)
        \/ \E id \in TenantIDs : CallAllocateTenantIP(th, id)
        \/ \E id \in TenantIDs, ip \in ReleaseInputs : CallReleaseTenantIP(th, id, ip)
        \/ StepReleaseTenantIPCache(th)
        \/ StepReleaseTenantIPStore(th)
    \/ \E j \in 1..MaxOps : RunStoreJob(j)

SpecRestart == InitRestart /\ [][NextRestart]_vars

\* every subnet of every cached tenant's list is in the process-wide set
ClaimedCoversTenants(d) ==
    \A id \in CachedTenants(d) :
        \A j \in 1..Len(d.tenants[id].subnets) :
            d.tenants[id].subnets[j] \in d.allSubnets

\* C35: the process-wide claimed set contains every subnet index of every
\* cached tenant's subnet list, also right after Init has loaded tenants
\* that own subnets; so an allocation after a restart never returns an
\* address in a subnet that another tenant owns.
C35_ClaimedCoversTenants ==
    ~panicked =>
        /\ ClaimedCoversTenants(ds)
        /\ (ret.op = "AllocateTenantIP" /\ ret.err = "") =>
              \A o \in CachedTenants(ds) \ {ret.tenant} :
                  \A j \in 1..Len(ds.tenants[o].subnets) :
                      ds.tenants[o].subnets[j] # BigEndianUint16(<<ret.ip[2], ret.ip[3]>>)

\* the second half alone: no allocation returns an address in a subnet of
\* another tenant's list
C35_NoSharedSubnet ==
    [][\A id \in TenantIDs :
          (AllocStep(id) /\ ~panicked' /\ ret'.err = "") =>
              \A o \in CachedTenants(ds) \ {id} :
                  \A j \in 1..Len(ds.tenants[o].subnets) :
                      ds.tenants[o].subnets[j] # BigEndianUint16(<<ret'.ip[2], ret'.ip[3]>>)]_vars

\* the part that holds: in a process started on an empty store the claimed
\* set covers every tenant's list (checked in Spec)
C35_ClaimedCoversInProcess ==
    ~panicked => ClaimedCoversTenants(ds)

----------------------------------------------------------------------------
(* SpecStats: the last-stats cache and the usage history of tenant t1      *)
(* under AddInstance, DeleteInstance and HandleStats, with the             *)
(* updateTenantUsage goroutines run in any order.  Node n1 has reported;   *)
(* the instance i1 of t1 was added or not.                                 *)

\* the instances of tenant t1 the calls add
StatsInstances ==
    {[UsageInstance EXCEPT !.ID = id, !.IPAddress = InstanceIP(id),
                           !.Usage = InstanceUsage(id)] : id \in InstanceIDs}

\* the reports of node n1: one instance, or both
StatInputsStats ==
    {NodeStat(0, <<InstanceStat("i1", cpu, <<>>)>>) : cpu \in {0, 2}}
    \cup {NodeStat(0, <<InstanceStat("i2", 1, <<>>)>>),
          NodeStat(0, <<InstanceStat("i1", 2, <<>>), InstanceStat("i2", 1, <<>>)>>)}

InitStats ==
    /\ AllocatedStep("t1", 0, 2)
    /\ held = AllocatedHeld("t1", 0, 2)
    /\ \/ ds = ReportedDS
       \/ ds = AddInstance(ReportedDS, UsageInstance).ds
    /\ InitRest

NextStats ==
    \/ \E th \in Serial :
        \/ \E instance \in StatsInstances : CallAddInstance(th, instance)
        \/ StepAddInstanceCache(th)
        \/ StepAddInstanceTenant(th)
        \/ \E id \in InstanceIDs : CallDeleteInstance(th, id)
        \/ StepDeleteInstanceLastStat(th)
        \/ StepDeleteInstanceCache(th)
        \/ StepDeleteInstanceTenant(th)
        \/ StepDeleteInstanceNode(th)
        \/ StepRemoveInstance(th)
        \/ StepReleaseTenantIPCache(th)
        \/ StepReleaseTenantIPStore(th)
        \/ StepLogEvent(th)
        \/ \E stat \in StatInputsStats : CallHandleStats(th, stat, {})
        \/ StepNodeLastStat(th)
        \/ StepInstanceLastStat(th)
        \/ StepInstanceNode(th)
        \/ StepAttachLock(th)
    \/ \E j \in 1..(2 * MaxOps) : RunUsageJob(j) \/ RunStoreJob(j)

SpecStats == InitStats /\ [][NextStats]_vars

\* C36: between calls, the last-stats cache holds a record only for an
\* instance of ds.instances, carrying that instance's tenant ID; a report
\* for an instance that was deleted or never added creates no last-stats
\* record and no usage point.
C36_LastStatsOfKnownInstances ==
    (~panicked /\ NoCallInProgress) =>
        /\ \A id \in DOMAIN ds.instanceLastStat :
              /\ id \in DOMAIN ds.instances
              /\ ds.instanceLastStat[id].TenantID = ds.instances[id].TenantID
        /\ \A t \in DOMAIN ds.tenantUsage : t \in TenantIDs

\* the part that holds: AddInstance and DeleteInstance keep the last-stats
\* cache on the instances of ds.instances, and a report of a known instance
\* keeps the tenant ID of its record
C36_AddDeleteKeepLastStats ==
    [][/\ (ret'.n # ret.n /\ ret'.op = "AddInstance" /\ ~panicked')
          => /\ ret'.id \in DOMAIN ds'.instanceLastStat
             /\ ds'.instanceLastStat[ret'.id].TenantID = ret'.tenant
       /\ (ret'.n # ret.n /\ ret'.op = "DeleteInstance" /\ ~panicked')
          => ret'.id \notin DOMAIN ds'.instanceLastStat
       /\ (ret'.n # ret.n /\ ret'.op = "HandleStats" /\ ~panicked')
          => \A id \in DOMAIN Pre.ds.instanceLastStat :
                 /\ id \in DOMAIN ds'.instanceLastStat
                 /\ ds'.instanceLastStat[id].TenantID = Pre.ds.instanceLastStat[id].TenantID]_vars

----------------------------------------------------------------------------
(* The usage counters of a tenant against its instance index (SpecInst)    *)

\* the amount of the resource name that the instance id uses
InputUsage(id, name) ==
    IF name \in DOMAIN InstanceUsage(id) THEN InstanceUsage(id)[name] ELSE 0

RECURSIVE SumUsage(_, _)
\* the sum of the resource name over a set of instances
SumUsage(ids, name) ==
    IF ids = {} THEN 0
    ELSE LET id == CHOOSE x \in ids : TRUE
         IN  InputUsage(id, name) + SumUsage(ids \ {id}, name)

\* the counters of the tenant are those of the instances in its index
UsageMatchesIndex(d, t) ==
    \A j \in 1..Len(d.tenants[t].Resources) :
        LET r == d.tenants[t].Resources[j] IN
        r.Usage = IF r.Rtype = 1 THEN Cardinality(d.tenants[t].instances)
                  ELSE SumUsage(d.tenants[t].instances, r.Rname)

\* C37: between calls, a cached tenant's instance count equals the number
\* of entries of its instance index and each named resource's usage equals
\* the sum of that resource over the instances of the index, after any
\* AddInstance and DeleteInstance calls, AddInstance called twice with the
\* same instance ID included.
C37_UsageMatchesIndex ==
    (~panicked /\ NoCallInProgress) => \A t \in CachedTenants(ds) : UsageMatchesIndex(ds, t)

\* the part that holds: AddInstance of an ID that is not in the tenant's
\* index, and DeleteInstance of an instance that is in its tenant's index,
\* keep the counters equal to those of the index
C37_NewAddAndDeleteKeepUsage ==
    [][\A t \in CachedTenants(Pre.ds) :
          (/\ ret'.n # ret.n /\ ~panicked'
           /\ UsageMatchesIndex(Pre.ds, t)
           /\ \/ ret'.op = "AddInstance" /\ ret'.id \notin Pre.ds.tenants[t].instances
              \/ /\ ret'.op = "DeleteInstance"
                 /\ ret'.id \in Pre.ds.tenants[Pre.ds.instances[ret'.id].TenantID].instances)
          => UsageMatchesIndex(ds', t)]_vars

----------------------------------------------------------------------------
(* The attachment table against the (instance, volume) index (SpecAttach)  *)

\* ds.attachments and ds.instanceVolumes are a bijection
AttachmentBijection(d) ==
    /\ \A key \in DOMAIN d.instanceVolumes :
          /\ d.instanceVolumes[key] \in DOMAIN d.attachments
          /\ d.attachments[d.instanceVolumes[key]].InstanceID = key[1]
          /\ d.attachments[d.instanceVolumes[key]].BlockID = key[2]
    /\ \A ID \in DOMAIN d.attachments :
          Cardinality({key \in DOMAIN d.instanceVolumes : d.instanceVolumes[key] = ID}) = 1
    /\ \A ID1, ID2 \in DOMAIN d.attachments :
          (/\ d.attachments[ID1].InstanceID = d.attachments[ID2].InstanceID
           /\ d.attachments[ID1].BlockID = d.attachments[ID2].BlockID) => ID1 = ID2

\* C38: after any sequence of createStorageAttachment,
\* updateStorageAttachments and deleteStorageAttachment calls the attachment
\* table and the (instance, volume) index are a bijection: every index entry
\* names an attachment of that instance and volume, every attachment has
\* exactly one index entry, and no pair has two attachments.
C38_AttachmentBijection ==
    (~panicked /\ NoCallInProgress) => AttachmentBijection(ds)

\* the part that holds: updateStorageAttachments, deleteStorageAttachment
\* and createStorageAttachment of a pair that is not in the index keep the
\* bijection
C38_BijectionKept ==
    [][(/\ ret'.n # ret.n /\ ~panicked'
        /\ AttachmentBijection(Pre.ds)
        /\ \/ ret'.op \in {"HandleStats", "deleteStorageAttachment", "DeleteBlockDevice"}
           \/ /\ ret'.op = "createStorageAttachment"
              /\ <<ret'.instance, ret'.volume>> \notin DOMAIN Pre.ds.instanceVolumes)
       => AttachmentBijection(ds')]_vars

----------------------------------------------------------------------------
(* The usage history against the last reports (SpecStats, SpecUsage)       *)

\* the instances of the tenant in ds.instances
LiveInstances(d, t) == {id \in DOMAIN d.instances : d.instances[id].TenantID = t}

RECURSIVE SumLastStats(_, _)
\* the sum of the last reported, floored values of a set of instances
SumLastStats(d, ids) ==
    IF ids = {} THEN [VCPU |-> 0, Memory |-> 0, Disk |-> 0]
    ELSE LET id == CHOOSE x \in ids : TRUE
             rest == SumLastStats(d, ids \ {id})
             last == LastStatAt(d, id)
         IN  [VCPU |-> last.VCPUUsage + rest.VCPU,
              Memory |-> last.MemUsage + rest.Memory,
              Disk |-> last.DiskUsage + rest.Disk]

\* the totals of the last usage point of the tenant, zero for no history
LastUsage(d, t) == Cumulative(TenantUsageAt(d, t), [VCPU |-> 0, Memory |-> 0, Disk |-> 0])

\* every updateTenantUsage goroutine has run and no call is in progress
UsageApplied == ~panicked /\ jobs = <<>> /\ NoCallInProgress

\* C39: once all asynchronous usage updates have been applied, the last
\* usage point of a tenant equals, for vcpu, memory and disk, the sum over
\* the tenant's live instances of the last reported value floored at zero,
\* whatever the order of the updates; the usage of an instance that
\* DeleteInstance removed is not counted.
C39_UsageIsLiveSum ==
    UsageApplied => LastUsage(ds, "t1") = SumLastStats(ds, LiveInstances(ds, "t1"))

\* the part that holds: while the instance is only reported (SpecUsage),
\* the last usage point is the instance's last floored report, whatever
\* the order of the updates
C39_UsageIsLastReport ==
    UsageApplied =>
        /\ LiveInstances(ds, "t1") = {"i1"}
        /\ LastUsage(ds, "t1") = SumLastStats(ds, {"i1"})

----------------------------------------------------------------------------
(* GetTenantUsage with start later than end (SpecUsage)                    *)

\* the call just completed is GetTenantUsage
UsageQueryCall == ret'.n # ret.n /\ ret'.op = "GetTenantUsage"

\* C40: GetTenantUsage completes without a run-time failure for every pair
\* of bounds; for a non-empty history and start later than end it returns
\* an empty result.
C40_QueryNeverFails ==
    [][UsageQueryCall =>
          /\ ~panicked'
          /\ ret'.start > ret'.end => ret'.usage = <<>>]_vars

\* the part that holds: the call fails exactly when a sample is stamped in
\* end <= t < start while the first sample is not after end and start is
\* not after the last sample; with start <= end it never fails
C40_QueryFailsOnInvertedBounds ==
    [][UsageQueryCall =>
          LET h == TenantUsageAt(ds, ret'.tenant) IN
          panicked' <=>
              /\ Len(h) > 0
              /\ h[1].Timestamp <= ret'.end /\ ret'.start <= h[Len(h)].Timestamp
              /\ \E k \in 1..Len(h) :
                     ret'.end <= h[k].Timestamp /\ h[k].Timestamp < ret'.start]_vars
====
